---- MODULE Spec2Model ----
(***************************************************************************)
(* Model of the whatsmeow-node native bridge (the Go part of the           *)
(* repository): the handle registries, WmRelease, the call envelope, the   *)
(* event stream engine (WmClientStartEvents / WmEventNext), the pairing    *)
(* stream (WmClientGetQRChannel / WmQRNext) and the result handling of the *)
(* generic dispatcher (WmClientCall).                                      *)
(*                                                                         *)
(* Boundary calls run on host threads.  A call is one action up to the     *)
(* first point where another call can change what it goes on to do: the    *)
(* draw of a handle, the store under the namespace lock, each iteration    *)
(* under devicesMu, the select of a poll.  A request that does not parse   *)
(* is the action BadRequest.  The envelopes returned by a step are held in *)
(* rets until the next step.                                               *)
(***************************************************************************)
EXTENDS Integers, Sequences, FiniteSets, TLC

VARIABLES
    nextHandle,   \* var nextHandle atomic.Uint64
    containers,   \* keys of map containers
    devices,      \* keys of map devices
    clients,      \* keys of map clients
    qrs,          \* keys of map qrs
    eventsMap,    \* keys of map eventsMap
    devicesMu,    \* 0, or the thread holding devicesMu for writing across steps
    streams,      \* the eventStream objects, named by the handle they get
    qrobj,        \* the qrState objects and the library's producer behind q.ch
    cli,          \* the wa.Client objects
    cont,         \* the sqlstore.Container objects
    pendingRm,    \* goroutines spawned by `go es.client.RemoveEventHandler(..)`
    thr,          \* host threads: the boundary call each one is in
    rets,         \* the calls that returned in the last step, with their envelopes
    issued,       \* history: the values newHandle returned, in order
    kindOf,       \* history: the namespace each stored handle was stored in
    released,     \* history: handles for which WmRelease returned success
    logCfg,       \* the log configuration (logCfg)
    loggers,      \* the logger each container and client was built with
    inst,         \* host: the postinstall script, its environment and its steps
    wk,           \* host: a worker thread and the controller that stops it
    iter,         \* host: the iterator of Client.events() and what it gave
    nat           \* host: the outcome of the last native.call of each thread

regs == <<containers, devices, clients, qrs, eventsMap>>
objs == <<streams, qrobj, cli, cont, pendingRm>>
hist == <<issued, kindOf, released>>

logs == <<logCfg, loggers>>

host == <<inst, wk, iter, nat>>

vars == <<nextHandle, regs, devicesMu, objs, thr, rets, hist, logs, host>>

----------------------------------------------------------------------------
(* Bounds of the model *)

NumThreads == 2
MaxHandle == 4
MaxDevs == 1
MaxNotify == 2
MaxQRItems == 3
MaxBurst == 130
MaxArgs == 3

(* Program constants *)

EventChanCap == 128
Millisecond == 1000

Threads == 1..NumThreads

----------------------------------------------------------------------------
(* Call envelope: jsonResp with `omitempty` on data and error.  A JSON     *)
(* object is a record holding exactly the keys that are emitted.           *)

Nil == [nil |-> TRUE]
EmptyObj == [empty |-> TRUE]

\* json.Marshal(jsonResp{..}): ok always; data unless the interface is nil;
\* error unless the string is empty
jsonResp(ok, data, error) ==
    LET base == [ok |-> ok]
        withData == IF data = Nil THEN base ELSE base @@ [data |-> data]
    IN  IF error = "" THEN withData ELSE withData @@ [error |-> error]

success(data) == jsonResp(TRUE, data, "")

fail(msg) == jsonResp(FALSE, Nil, msg)

HasData(env) == "data" \in DOMAIN env
HasError(env) == "error" \in DOMAIN env
NotFound(env) ==
    /\ ~env.ok /\ HasError(env)
    /\ env.error \in {"container handle not found", "device handle not found",
                      "client handle not found", "qr handle not found",
                      "event handle not found", "handle not found"}

----------------------------------------------------------------------------
(* Handles and registries *)

AtomicAddStuck(c, d) == c

\* nextHandle.Add(1) on an atomic.Uint64.  The counter starts at 0 and the
\* model stops allocating at MaxHandle, far below the wrap at 2^64.
AtomicAdd(c, d) == c + d

newHandle == AtomicAdd(nextHandle, 1)

RegistryInsertLost(reg, h) == reg

\* m[h] = obj under the namespace's write lock
RegistryInsert(reg, h) == reg \cup {h}

RegistryDeleteKept(reg, h) == reg

\* a delete that clears the map
RegistryDeleteAll(reg, h) == {}

\* delete(m, h)
RegistryDelete(reg, h) == reg \ {h}

\* obj := m[handle(..)] under the read lock; obj == nil means not found
RegistryLookup(reg, h) == h \in reg

\* the keys of the namespace of kind k
RegistryOf(k) ==
    CASE k = "container" -> containers
      [] k = "device" -> devices
      [] k = "client" -> clients
      [] k = "qr" -> qrs
      [] OTHER -> eventsMap

----------------------------------------------------------------------------
(* Host threads *)

Idle == [op |-> "idle", pc |-> "idle", h |-> 0, tmo |-> 0, nh |-> 0, n |-> 0,
         acc |-> <<>>]

IsIdle(t) == thr[t].pc = "idle"

KindOfOp(op) ==
    CASE op \in {"WmContainerGetFirstDevice", "WmContainerGetDevice",
                 "WmContainerGetAllDevices"} -> "container"
      [] op = "WmNewClient" -> "device"
      [] op \in {"WmClientStartEvents", "WmClientGetQRChannel", "WmClientCall"} -> "client"
      [] op = "WmQRNext" -> "qr"
      [] op = "WmEventNext" -> "event"
      [] OTHER -> "none"

\* thread t is in call op on handle h, at position pc
Begin(op, h, pc) == [Idle EXCEPT !.op = op, !.pc = pc, !.h = h]

\* a call of thread t returns env
Ret(t, op, h, tmo, via, env) ==
    [t |-> t, op |-> op, h |-> h, tmo |-> tmo, via |-> via, resp |-> env]

\* the call thread t is in returns env
RetOf(t, via, env) == Ret(t, thr[t].op, thr[t].h, thr[t].tmo, via, env)

\* the handles a caller passes to a call on objects of kind k: one it was given
\* for an object of that kind (released or not), or 0, which is never issued
ArgsOf(k) == {0} \cup {h \in DOMAIN kindOf : kindOf[h] = k}

RECURSIVE SumN(_)
SumN(T) == IF T = {} THEN 0
           ELSE LET x == CHOOSE y \in T : TRUE IN thr[x].n + SumN(T \ {x})

\* handles still to be drawn by calls already under way
Reserved == nextHandle + SumN({t \in Threads : thr[t].pc \in {"lock", "loop"}})

\* the handles the model lets be drawn: MaxHandle, and one more for every
\* further iterator the host takes from an iterable
HandleRoom == MaxHandle + (IF iter.pc = "off" THEN 0 ELSE iter.n - 1)

CanAlloc(k) == Reserved + k <= HandleRoom

\* the state after the library is loaded
----------------------------------------------------------------------------
(* The log configuration and the loggers built from it                      *)

\* the levels a request names, in the spellings a caller may use
LevelTexts == {"DEBUG", "info", "None"}

\* strings.ToUpper
ToUpper(s) ==
    CASE s = "info" -> "INFO"
      [] s = "None" -> "NONE"
      [] s = "none" -> "NONE"
      [] OTHER -> s

\* strings.EqualFold
EqualFold(a, b) == ToUpper(a) = ToUpper(b)

\* var logCfg = logOptions{Database: "DEBUG", Client: "DEBUG", Color: true}
DefaultLogCfg == [Database |-> "DEBUG", Client |-> "DEBUG", Color |-> TRUE]

\* waLog.Noop
Noop == [noop |-> TRUE]

\* waLog.Stdout(module, minLevel, color)
Stdout(module, level, color) == [module |-> module, min |-> level, color |-> color]

makeLogger(module, level, color) ==
    IF EqualFold(level, "none") THEN Noop ELSE Stdout(module, ToUpper(level), color)

newDBLogger == makeLogger("Database", logCfg.Database, logCfg.Color)

newClientLogger == makeLogger("Client", logCfg.Client, logCfg.Color)

----------------------------------------------------------------------------
(* The host side: nothing of it runs while the bridge is studied alone      *)

Undefined == [undefined |-> TRUE]

NotRun == [pc |-> "off"]

NoWorker == [pc |-> "off"]

NoIterator == [pc |-> "off"]

NoCalls == [t \in Threads |-> Undefined]

HostIdle ==
    /\ inst = NotRun
    /\ wk = NoWorker
    /\ iter = NoIterator
    /\ nat = NoCalls

Init ==
    /\ nextHandle = 0
    /\ containers = {}
    /\ devices = {}
    /\ clients = {}
    /\ qrs = {}
    /\ eventsMap = {}
    /\ devicesMu = 0
    /\ streams = <<>>
    /\ qrobj = <<>>
    /\ cli = <<>>
    /\ cont = <<>>
    /\ pendingRm = {}
    /\ thr = [t \in Threads |-> Idle]
    /\ rets = {}
    /\ issued = <<>>
    /\ kindOf = <<>>
    /\ released = {}
    /\ logCfg = DefaultLogCfg
    /\ loggers = <<>>
    /\ HostIdle

\* a call that returns env from its first region and changes nothing
Immediate(t, op, h, tmo, env) ==
    /\ rets' = {Ret(t, op, h, tmo, "", env)}
    /\ UNCHANGED thr

\* an allocating call that returns env before it draws a handle
Refuse(t, op, h, tmo, env) ==
    /\ Immediate(t, op, h, tmo, env)
    /\ UNCHANGED <<nextHandle, issued, streams, qrobj, loggers>>

\* a request that is not JSON given a handle all the same
BadRequestDraws(t, op) ==
    /\ IsIdle(t)
    /\ CanAlloc(1)
    /\ nextHandle' = newHandle
    /\ rets' = {Ret(t, op, 0, 0, "invalid", fail("invalid json"))}
    /\ UNCHANGED thr
    /\ UNCHANGED <<regs, devicesMu, objs, hist>>
    /\ UNCHANGED logs
    /\ UNCHANGED host

\* json.Unmarshal of the request fails, in any boundary function
BadRequest(t, op) ==
    /\ IsIdle(t)
    /\ rets' = {Ret(t, op, 0, 0, "invalid", fail("invalid json"))}
    /\ UNCHANGED thr
    /\ UNCHANGED <<nextHandle, regs, devicesMu, objs, hist>>
    /\ UNCHANGED logs
    /\ UNCHANGED host

\* the level a field of logCfg takes: the request's, unless it is empty
SetAlways(req, cur) == req

SetIfPresent(req, cur) == IF req # "" THEN req ELSE cur

\* color of a request is a *bool: nil when the key is left out (or null)
ColorNil == {}

ColorPtr(b) == {b}

Deref(p) == CHOOSE b \in p : TRUE

WmSetLogOptions(t, req) ==
    /\ IsIdle(t)
    /\ logCfg' = [Database |-> SetIfPresent(req.Database, logCfg.Database),
                  Client |-> SetIfPresent(req.Client, logCfg.Client),
                  Color |-> IF req.Color # ColorNil THEN Deref(req.Color)
                            ELSE logCfg.Color]
    /\ rets' = {Ret(t, "WmSetLogOptions", 0, 0, "set", success(EmptyObj))
                 @@ [req |-> req]}
    /\ UNCHANGED <<nextHandle, regs, devicesMu, objs, thr, hist, loggers>>
    /\ UNCHANGED host

----------------------------------------------------------------------------
(* Allocating calls.  Each one: look the parent up (or validate the        *)
(* request), run the native constructor, draw a handle, store the object.  *)

\* ctx, cancel := context.WithCancel(..); stream := &eventStream{..};
\* stream.handlerID = cli.AddEventHandler(..).  seen, got and polled are
\* history: the notifications the listener serialised, the events handed to
\* pollers, and whether a poll has begun.
NewEventStream(c) ==
    [client |-> c, ch |-> <<>>, cancels |-> 0, handler |-> TRUE,
     seen |-> <<>>, got |-> <<>>, polled |-> FALSE]

\* state := &qrState{ch: ch, cancel: cancel}, and the library's producer behind ch
NewQRState(c) ==
    [client |-> c, ch |-> <<>>, closed |-> FALSE, cancels |-> 0, emitting |-> FALSE,
     sent |-> 0, items |-> <<>>, got |-> <<>>]

\* The call goes on to h := newHandle().  The stream objects are built (and
\* their listener registered) just before it; the lookup and the constructor
\* before the draw touch nothing another call changes.
Draw(t, op, h) ==
    /\ CanAlloc(1)
    /\ nextHandle' = newHandle
    /\ issued' = Append(issued, newHandle)
    /\ thr' = [thr EXCEPT ![t] = [Begin(op, h, "store") EXCEPT !.nh = newHandle]]
    /\ rets' = {}
    /\ streams' = IF op = "WmClientStartEvents"
                  THEN streams @@ (newHandle :> NewEventStream(h)) ELSE streams
    /\ qrobj' = IF op = "WmClientGetQRChannel"
                THEN qrobj @@ (newHandle :> NewQRState(h)) ELSE qrobj
    /\ loggers' = CASE op = "WmOpenContainer" -> loggers @@ (newHandle :> newDBLogger)
                    [] op = "WmNewClient" -> loggers @@ (newHandle :> newClientLogger)
                    [] OTHER -> loggers

WmOpenContainer(t, outcome) ==
    /\ IsIdle(t)
    /\ CASE outcome = "empty" ->
              Refuse(t, "WmOpenContainer", 0, 0, fail("dialect and address are required"))
         [] outcome = "nativeerr" ->
              Refuse(t, "WmOpenContainer", 0, 0, fail("native error"))
         [] OTHER ->
              Draw(t, "WmOpenContainer", 0)
    /\ UNCHANGED <<regs, devicesMu, cli, cont, pendingRm, kindOf, released, logCfg>>
    /\ UNCHANGED host

\* WmContainerGetFirstDevice and WmContainerGetDevice: one device from a container
ContainerGetOne(t, op, h, outcome) ==
    /\ IsIdle(t)
    /\ IF ~RegistryLookup(containers, h)
       THEN Refuse(t, op, h, 0, fail("container handle not found"))
       ELSE CASE outcome = "badjid" -> Refuse(t, op, h, 0, fail("failed to parse JID"))
              [] outcome = "nativeerr" -> Refuse(t, op, h, 0, fail("native error"))
              [] outcome = "absent" -> Refuse(t, op, h, 0, success([found |-> FALSE]))
              [] OTHER ->
                   Draw(t, op, h)
    /\ UNCHANGED <<regs, devicesMu, cli, cont, pendingRm, kindOf, released>>
    /\ UNCHANGED logs
    /\ UNCHANGED host

WmContainerGetFirstDevice(t, h, outcome) ==
    /\ outcome \in {"ok", "nativeerr"}
    /\ ContainerGetOne(t, "WmContainerGetFirstDevice", h, outcome)

WmContainerGetDevice(t, h, outcome) ==
    /\ outcome \in {"ok", "badjid", "nativeerr", "absent"}
    /\ ContainerGetOne(t, "WmContainerGetDevice", h, outcome)

\* WmContainerGetAllDevices: the store gives n devices, or an error (n < 0)
WmContainerGetAllDevices(t, h, n) ==
    /\ IsIdle(t)
    /\ IF ~RegistryLookup(containers, h)
       THEN Immediate(t, "WmContainerGetAllDevices", h, 0, fail("container handle not found"))
       ELSE IF n < 0
       THEN Immediate(t, "WmContainerGetAllDevices", h, 0, fail("native error"))
       ELSE /\ CanAlloc(n)
            /\ thr' = [thr EXCEPT ![t] =
                         [Begin("WmContainerGetAllDevices", h, "lock") EXCEPT !.n = n]]
            /\ rets' = {}
    /\ UNCHANGED <<nextHandle, regs, devicesMu, objs, hist>>
    /\ UNCHANGED logs
    /\ UNCHANGED host

\* devicesMu.Lock()
GetAllDevicesLock(t) ==
    /\ thr[t].pc = "lock"
    /\ devicesMu = 0
    /\ devicesMu' = t
    /\ thr' = [thr EXCEPT ![t].pc = "loop"]
    /\ rets' = {}
    /\ UNCHANGED <<nextHandle, regs, objs, hist>>
    /\ UNCHANGED logs
    /\ UNCHANGED host

\* one iteration of `for _, d := range devs`, or the unlock and return after it
GetAllDevicesLoop(t) ==
    /\ thr[t].pc = "loop"
    /\ IF thr[t].n > 0
       THEN /\ nextHandle' = newHandle
            /\ issued' = Append(issued, newHandle)
            /\ kindOf' = kindOf @@ (newHandle :> "device")
            /\ devices' = RegistryInsert(devices, newHandle)
            /\ thr' = [thr EXCEPT ![t].n = @ - 1, ![t].acc = Append(@, newHandle)]
            /\ rets' = {}
            /\ UNCHANGED devicesMu
       ELSE /\ devicesMu' = 0
            /\ thr' = [thr EXCEPT ![t] = Idle]
            /\ rets' = {RetOf(t, "", success([handles |-> thr[t].acc]))}
            /\ UNCHANGED <<nextHandle, issued, kindOf, devices>>
    /\ UNCHANGED <<containers, clients, qrs, eventsMap, objs, released>>
    /\ UNCHANGED logs
    /\ UNCHANGED host

WmNewClient(t, h) ==
    /\ IsIdle(t)
    /\ devicesMu = 0
    /\ IF ~RegistryLookup(devices, h)
       THEN Refuse(t, "WmNewClient", h, 0, fail("device handle not found"))
       ELSE Draw(t, "WmNewClient", h)
    /\ UNCHANGED <<regs, devicesMu, cli, cont, pendingRm, kindOf, released, logCfg>>
    /\ UNCHANGED host

----------------------------------------------------------------------------
(* Event stream engine *)

Timeouts == {-1, 0, 250}

RawEvents == {"Connected", "Message"}

\* serializeEvent: the "type" of the uniform event; seq names the notification
\* it was made from
serializeEvent(raw, seq) ==
    [type |-> IF raw = "Connected" THEN "connected" ELSE "message", seq |-> seq]

ChanSendUnbounded(ch, v) == Append(ch, v)

ChanSendFront(ch, v) == IF Len(ch) < EventChanCap THEN <<v>> \o ch ELSE ch

\* select { case stream.ch <- payload: default: /* drop if full */ } with no
\* receiver waiting
ChanSend(ch, v) == IF Len(ch) < EventChanCap THEN Append(ch, v) ELSE ch

Parked(op, h) == {t \in Threads : thr[t].pc = "parked" /\ thr[t].op = op /\ thr[t].h = h}

TimeoutEvent == [type |-> "timeout"]
ClosedEvent == [type |-> "closed"]

WmClientStartEvents(t, h) ==
    /\ IsIdle(t)
    /\ IF ~RegistryLookup(clients, h)
       THEN Refuse(t, "WmClientStartEvents", h, 0, fail("client handle not found"))
       ELSE Draw(t, "WmClientStartEvents", h)
    /\ UNCHANGED <<regs, devicesMu, cli, cont, pendingRm, kindOf, released>>
    /\ UNCHANGED logs
    /\ UNCHANGED host

\* The client dispatches one notification to every registered handler.  A send on
\* stream.ch goes to a receiver parked in WmEventNext if there is one, else into
\* the buffer, else (buffer full) nowhere.
Notify(c, raw, max) ==
    /\ c \in DOMAIN cli
    /\ cli[c].notes < max
    /\ cli' = [cli EXCEPT ![c].notes = @ + 1]
    /\ IF raw = "nil"
       THEN /\ rets' = {}
            /\ UNCHANGED <<streams, thr>>
       ELSE LET S == {s \in DOMAIN streams : streams[s].client = c /\ streams[s].handler}
                ev(s) == serializeEvent(raw, Len(streams[s].seen) + 1)
            IN \E r \in [S -> Threads \cup {0}] :
                 /\ \A s \in S : IF Parked("WmEventNext", s) = {}
                                  THEN r[s] = 0 ELSE r[s] \in Parked("WmEventNext", s)
                 /\ streams' = [s \in DOMAIN streams |->
                       IF s \notin S THEN streams[s]
                       ELSE [streams[s] EXCEPT
                               !.seen = Append(@, raw),
                               !.ch = IF r[s] = 0 THEN ChanSend(@, ev(s)) ELSE @,
                               !.got = IF r[s] = 0 THEN @ ELSE Append(@, ev(s))]]
                 /\ thr' = [t \in Threads |->
                              IF \E s \in S : r[s] = t THEN Idle ELSE thr[t]]
                 /\ rets' = {RetOf(r[s], "recv", success(ev(s))) : s \in {x \in S : r[x] # 0}}
    /\ UNCHANGED <<nextHandle, regs, devicesMu, qrobj, cont, pendingRm, hist>>
    /\ UNCHANGED logs
    /\ UNCHANGED host

\* WmEventNext up to the select
WmEventNext(t, h, tmo) ==
    /\ IsIdle(t)
    /\ IF ~RegistryLookup(eventsMap, h)
       THEN /\ Immediate(t, "WmEventNext", h, tmo, fail("event handle not found"))
            /\ UNCHANGED streams
       ELSE /\ thr' = [thr EXCEPT ![t] = [Begin("WmEventNext", h, "select") EXCEPT !.tmo = tmo]]
            /\ rets' = {}
            /\ streams' = [streams EXCEPT ![h].polled = TRUE]
    /\ UNCHANGED <<nextHandle, regs, devicesMu, qrobj, cli, cont, pendingRm, hist>>
    /\ UNCHANGED logs
    /\ UNCHANGED host

TimerCanFireAlways(tmo) == TRUE

\* the timer channel of a poll: time.After(..) when timeoutMs > 0, else a channel
\* nobody ever sends on
TimerCanFire(tmo) == tmo > 0

WokenByDoneNobody(h) == {}

\* the threads a cancel() wakes: those parked on `case <-es.ctx.Done()`
WokenByDone(h) == Parked("WmEventNext", h)

\* the select of WmEventNext when it is reached: a ready case is taken (any of
\* them when several are ready), and with none ready the thread parks
EventSelect(t) ==
    /\ thr[t].pc = "select"
    /\ thr[t].op = "WmEventNext"
    /\ LET s == thr[t].h
           q == streams[s].ch
       IN \/ /\ Len(q) > 0
             /\ streams' = [streams EXCEPT ![s].ch = Tail(q), ![s].got = Append(@, Head(q))]
             /\ thr' = [thr EXCEPT ![t] = Idle]
             /\ rets' = {RetOf(t, "recv", success(Head(q)))}
          \/ /\ streams[s].cancels > 0
             /\ thr' = [thr EXCEPT ![t] = Idle]
             /\ rets' = {RetOf(t, "done", success(ClosedEvent))}
             /\ UNCHANGED streams
          \/ /\ Len(q) = 0
             /\ streams[s].cancels = 0
             /\ thr' = [thr EXCEPT ![t].pc = "parked"]
             /\ rets' = {}
             /\ UNCHANGED streams
    /\ UNCHANGED <<nextHandle, regs, devicesMu, qrobj, cli, cont, pendingRm, hist>>
    /\ UNCHANGED logs
    /\ UNCHANGED host

TimeoutResult(op) == IF op = "WmEventNext" THEN TimeoutEvent ELSE [event |-> "timeout"]

\* `case <-timeout:` of WmEventNext and of WmQRNext: the timer fires, before the
\* select is reached or while the thread is parked in it
TimerFire(t) ==
    /\ thr[t].pc \in {"select", "parked"}
    /\ TimerCanFire(thr[t].tmo)
    /\ thr' = [thr EXCEPT ![t] = Idle]
    /\ rets' = {RetOf(t, "timeout", success(TimeoutResult(thr[t].op)))}
    /\ UNCHANGED <<nextHandle, regs, devicesMu, objs, hist>>
    /\ UNCHANGED logs
    /\ UNCHANGED host

RemoveEveryEventHandler(s) ==
    /\ s \in pendingRm
    /\ pendingRm' = pendingRm \ {s}
    /\ streams' = [x \in DOMAIN streams |->
                     IF streams[x].client = streams[s].client
                     THEN [streams[x] EXCEPT !.handler = FALSE] ELSE streams[x]]
    /\ rets' = {}
    /\ UNCHANGED <<nextHandle, regs, devicesMu, qrobj, cli, cont, thr, hist>>
    /\ UNCHANGED logs
    /\ UNCHANGED host

\* the goroutine `go es.client.RemoveEventHandler(es.handlerID)` runs: the
\* library takes out the one listener registered under that id
RemoveEventHandler(s) ==
    /\ s \in pendingRm
    /\ pendingRm' = pendingRm \ {s}
    /\ streams' = [streams EXCEPT ![s].handler = FALSE]
    /\ rets' = {}
    /\ UNCHANGED <<nextHandle, regs, devicesMu, qrobj, cli, cont, thr, hist>>
    /\ UNCHANGED logs
    /\ UNCHANGED host

----------------------------------------------------------------------------
(* Pairing stream.  q.ch belongs to the library (cli.GetQRChannel): its      *)
(* producer sends code items while its emitter runs, sends one terminal item *)
(* and closes the channel, and closes it when the emitter sees the context   *)
(* cancelled.  Durations are in microseconds.                                *)

QRTerminals == {"success", "timeout", "error", "errnil", "err-client-outdated"}

QRItem(kind, k) ==
    CASE kind = "code" ->
           [Event |-> "code", Code |-> k, Timeout |-> IF k = 1 THEN 60000500 ELSE 20000000,
            Error |-> "<nil>"]
      [] kind = "error" ->
           [Event |-> "error", Code |-> 0, Timeout |-> 0, Error |-> "pair failed"]
      [] kind = "errnil" ->
           [Event |-> "error", Code |-> 0, Timeout |-> 0, Error |-> "<nil>"]
      [] OTHER ->
           [Event |-> kind, Code |-> 0, Timeout |-> 0, Error |-> "<nil>"]

\* a switch that passes the kind of the item only
QRItemOutBare(item) == [event |-> item.Event]

\* the switch on item.Event in WmQRNext
QRItemOut(item) ==
    CASE item.Event = "code" ->
           [event |-> "code", code |-> item.Code, timeoutMs |-> item.Timeout \div Millisecond]
      [] item.Event = "error" ->
           IF item.Error # "<nil>" THEN [event |-> "error", error |-> item.Error]
           ELSE [event |-> "error"]
      [] item.Event = "success" -> [event |-> "success"]
      [] item.Event = "timeout" -> [event |-> "timeout"]
      [] OTHER -> [event |-> item.Event]

\* a closed channel answered with the terminal event once more
QRClosedRepeats == [event |-> "success"]

QRClosedEvent == [event |-> "closed"]

WmClientGetQRChannel(t, h, outcome) ==
    /\ IsIdle(t)
    /\ IF ~RegistryLookup(clients, h)
       THEN Refuse(t, "WmClientGetQRChannel", h, 0, fail("client handle not found"))
       ELSE IF outcome = "nativeerr"
       THEN Refuse(t, "WmClientGetQRChannel", h, 0, fail("native error"))
       ELSE Draw(t, "WmClientGetQRChannel", h)
    /\ UNCHANGED <<regs, devicesMu, cli, cont, pendingRm, kindOf, released>>
    /\ UNCHANGED logs
    /\ UNCHANGED host

\* WmQRNext up to the select
WmQRNext(t, h, tmo) ==
    /\ IsIdle(t)
    /\ IF ~RegistryLookup(qrs, h)
       THEN Immediate(t, "WmQRNext", h, tmo, fail("qr handle not found"))
       ELSE /\ thr' = [thr EXCEPT ![t] = [Begin("WmQRNext", h, "select") EXCEPT !.tmo = tmo]]
            /\ rets' = {}
    /\ UNCHANGED <<nextHandle, regs, devicesMu, objs, hist>>
    /\ UNCHANGED logs
    /\ UNCHANGED host

\* the select of WmQRNext when it is reached: an item, the closed channel, or park
QRSelect(t) ==
    /\ thr[t].pc = "select"
    /\ thr[t].op = "WmQRNext"
    /\ LET q == thr[t].h
           ch == qrobj[q].ch
       IN \/ /\ Len(ch) > 0
             /\ qrobj' = [qrobj EXCEPT ![q].ch = Tail(ch),
                                       ![q].got = Append(@, QRItemOut(Head(ch)))]
             /\ thr' = [thr EXCEPT ![t] = Idle]
             /\ rets' = {RetOf(t, "recv", success(QRItemOut(Head(ch))))}
          \/ /\ Len(ch) = 0
             /\ qrobj[q].closed
             /\ thr' = [thr EXCEPT ![t] = Idle]
             /\ rets' = {RetOf(t, "chclosed", success(QRClosedEvent))}
             /\ UNCHANGED qrobj
          \/ /\ Len(ch) = 0
             /\ ~qrobj[q].closed
             /\ thr' = [thr EXCEPT ![t].pc = "parked"]
             /\ rets' = {}
             /\ UNCHANGED qrobj
    /\ UNCHANGED <<nextHandle, regs, devicesMu, streams, cli, cont, pendingRm, hist>>
    /\ UNCHANGED logs
    /\ UNCHANGED host

\* library: the first QR event arrives and the emitter goroutine starts
QRStartEmitter(q) ==
    /\ q \in DOMAIN qrobj
    /\ ~qrobj[q].closed
    /\ ~qrobj[q].emitting
    /\ qrobj' = [qrobj EXCEPT ![q].emitting = TRUE]
    /\ rets' = {}
    /\ UNCHANGED <<nextHandle, regs, devicesMu, streams, cli, cont, pendingRm, thr, hist>>
    /\ UNCHANGED logs
    /\ UNCHANGED host

\* library: one send on q.ch, to a parked receiver if there is one; with close set
\* the channel is closed after it and the other parked receivers see it closed
QRProduce(q, item, close) ==
    LET P == Parked("WmQRNext", q)
    IN \E r \in (IF P = {} THEN {0} ELSE P) :
         /\ qrobj' = [qrobj EXCEPT
                        ![q].sent = @ + 1,
                        ![q].items = Append(@, item),
                        ![q].got = IF r = 0 THEN @ ELSE Append(@, QRItemOut(item)),
                        ![q].ch = IF r = 0 THEN Append(@, item) ELSE @,
                        ![q].closed = close]
         /\ thr' = [t \in Threads |->
                      IF t = r \/ (close /\ t \in P) THEN Idle ELSE thr[t]]
         /\ rets' = {RetOf(t, "recv", success(QRItemOut(item))) : t \in P \cap {r}}
                    \cup {RetOf(t, "chclosed", success(QRClosedEvent)) :
                            t \in (IF close THEN P \ {r} ELSE {})}

QREmitCode(q) ==
    /\ q \in DOMAIN qrobj
    /\ qrobj[q].emitting
    /\ ~qrobj[q].closed
    /\ qrobj[q].sent < MaxQRItems
    /\ QRProduce(q, QRItem("code", qrobj[q].sent + 1), FALSE)
    /\ UNCHANGED <<nextHandle, regs, devicesMu, streams, cli, cont, pendingRm, hist>>
    /\ UNCHANGED logs
    /\ UNCHANGED host

QRTerminal(q, kind) ==
    /\ q \in DOMAIN qrobj
    /\ ~qrobj[q].closed
    /\ qrobj[q].sent < MaxQRItems
    /\ QRProduce(q, QRItem(kind, 0), TRUE)
    /\ UNCHANGED <<nextHandle, regs, devicesMu, streams, cli, cont, pendingRm, hist>>
    /\ UNCHANGED logs
    /\ UNCHANGED host

\* library: the running emitter sees ctx.Done() and closes q.ch
QRCtxDone(q) ==
    /\ q \in DOMAIN qrobj
    /\ qrobj[q].emitting
    /\ qrobj[q].cancels > 0
    /\ ~qrobj[q].closed
    /\ qrobj' = [qrobj EXCEPT ![q].closed = TRUE]
    /\ thr' = [t \in Threads |-> IF t \in Parked("WmQRNext", q) THEN Idle ELSE thr[t]]
    /\ rets' = {RetOf(t, "chclosed", success(QRClosedEvent)) : t \in Parked("WmQRNext", q)}
    /\ UNCHANGED <<nextHandle, regs, devicesMu, streams, cli, cont, pendingRm, hist>>
    /\ UNCHANGED logs
    /\ UNCHANGED host

----------------------------------------------------------------------------
(* The object is stored under the handle drawn *)

StoredKind(op) ==
    CASE op = "WmOpenContainer" -> "container"
      [] op \in {"WmContainerGetFirstDevice", "WmContainerGetDevice"} -> "device"
      [] op = "WmNewClient" -> "client"
      [] op = "WmClientGetQRChannel" -> "qr"
      [] OTHER -> "event"

\* the store under the namespace's write lock, and the success envelope
StoreStep(t) ==
    /\ thr[t].pc = "store"
    /\ LET h == thr[t].nh
           k == StoredKind(thr[t].op)
       IN
       /\ k = "device" => devicesMu = 0
       /\ containers' = IF k = "container" THEN RegistryInsert(containers, h) ELSE containers
       /\ cont' = IF k = "container" THEN cont @@ (h :> [closes |-> 0]) ELSE cont
       /\ devices' = IF k = "device" THEN RegistryInsert(devices, h) ELSE devices
       /\ clients' = IF k = "client" THEN RegistryInsert(clients, h) ELSE clients
       /\ cli' = IF k = "client" THEN cli @@ (h :> [disc |-> 0, notes |-> 0]) ELSE cli
       /\ qrs' = IF k = "qr" THEN RegistryInsert(qrs, h) ELSE qrs
       /\ eventsMap' = IF k = "event" THEN RegistryInsert(eventsMap, h) ELSE eventsMap
       /\ kindOf' = kindOf @@ (h :> k)
       /\ thr' = [thr EXCEPT ![t] = Idle]
       /\ rets' = {RetOf(t, "", success(IF thr[t].op = "WmContainerGetDevice"
                                        THEN [handle |-> h, found |-> TRUE]
                                        ELSE [handle |-> h]))}
    /\ UNCHANGED <<nextHandle, devicesMu, streams, qrobj, pendingRm,
                   issued, released>>
    /\ UNCHANGED logs
    /\ UNCHANGED host

----------------------------------------------------------------------------
(* WmRelease: the five namespaces are probed in the order event streams,    *)
(* pairing streams, clients, devices, containers, each under its own lock.  *)
(* A handle is stored in one namespace, once: the regions that miss read    *)
(* nothing another call changes for it, so the call acts at the region that *)
(* hits, or returns after the last one missed.                              *)

\* the namespace whose region hits
ReleaseHit(h) ==
    CASE RegistryLookup(eventsMap, h) -> "event"
      [] RegistryLookup(qrs, h) -> "qr"
      [] RegistryLookup(clients, h) -> "client"
      [] RegistryLookup(devices, h) -> "device"
      [] RegistryLookup(containers, h) -> "container"
      [] OTHER -> "none"

\* a release that returns only when the queue of the stream has been drained
ReleaseAfterDrain(h) == streams[h].ch = <<>>

\* the events region of WmRelease waits for nothing of the stream: the removal
\* of the handler is handed to a goroutine, cancel and delete do not block
ReleaseCanProceed(h) == TRUE

WmRelease(t, h) ==
    /\ IsIdle(t)
    /\ LET k == ReleaseHit(h)
       IN
       /\ k = "event" => ReleaseCanProceed(h)
       /\ k \in {"device", "container", "none"} => devicesMu = 0
       /\ pendingRm' = IF k = "event" THEN pendingRm \cup {h} ELSE pendingRm
       /\ streams' = IF k = "event" THEN [streams EXCEPT ![h].cancels = @ + 1] ELSE streams
       /\ eventsMap' = IF k = "event" THEN RegistryDelete(eventsMap, h) ELSE eventsMap
       /\ qrobj' = IF k = "qr" THEN [qrobj EXCEPT ![h].cancels = @ + 1] ELSE qrobj
       /\ qrs' = IF k = "qr" THEN RegistryDelete(qrs, h) ELSE qrs
       /\ cli' = IF k = "client" THEN [cli EXCEPT ![h].disc = @ + 1] ELSE cli
       /\ clients' = IF k = "client" THEN RegistryDelete(clients, h) ELSE clients
       /\ devices' = IF k = "device" THEN RegistryDelete(devices, h) ELSE devices
       /\ cont' = IF k = "container" THEN [cont EXCEPT ![h].closes = @ + 1] ELSE cont
       /\ containers' = IF k = "container" THEN RegistryDelete(containers, h) ELSE containers
       /\ released' = IF k = "none" THEN released ELSE released \cup {h}
       /\ thr' = IF k = "event"
                 THEN [x \in Threads |-> IF x \in WokenByDone(h) THEN Idle ELSE thr[x]]
                 ELSE thr
       /\ rets' = IF k = "none"
                  THEN {Ret(t, "WmRelease", h, 0, "", fail("handle not found"))}
                  ELSE {Ret(t, "WmRelease", h, 0, "released", success(EmptyObj))}
                       \cup {RetOf(x, "done", success(ClosedEvent)) :
                               x \in (IF k = "event" THEN WokenByDone(h) ELSE {})}
    /\ UNCHANGED <<nextHandle, devicesMu, issued, kindOf>>
    /\ UNCHANGED logs
    /\ UNCHANGED host

----------------------------------------------------------------------------
(* WmClientCall: what is done with the values the invoked method returns.  *)
(* A returned value is [kind, isnil, val]; kind "error" is the interface    *)
(* type error, kind "ptr" a pointer type.                                   *)

ErrNil == [kind |-> "error", isnil |-> TRUE, val |-> ""]
ErrVal(m) == [kind |-> "error", isnil |-> FALSE, val |-> m]
PtrNil == [kind |-> "ptr", isnil |-> TRUE, val |-> ""]
PtrVal == [kind |-> "ptr", isnil |-> FALSE, val |-> "obj"]
BoolVal == [kind |-> "bool", isnil |-> FALSE, val |-> "true"]
StrVal == [kind |-> "string", isnil |-> FALSE, val |-> "text"]

\* the results a method of the client can come back with
MethodOuts(m) ==
    CASE m = "Disconnect" -> {<<>>}
      [] m = "IsConnected" -> {<<BoolVal>>}
      [] m = "WaitForConnection" -> {<<BoolVal>>}
      [] m = "SendPresence" -> {<<ErrNil>>, <<ErrVal("native error")>>, <<ErrVal("")>>}
      [] m = "GetProfilePictureInfo" ->
           {<<PtrVal, ErrNil>>, <<PtrNil, ErrNil>>, <<PtrNil, ErrVal("native error")>>}
      [] m = "GetGroupInviteLink" -> {<<StrVal, ErrNil>>, <<StrVal, ErrVal("native error")>>}
      [] m = "Upload" -> {<<StrVal, ErrNil>>, <<StrVal, ErrVal("native error")>>}
      [] m = "SendMessage" -> {<<StrVal, ErrNil>>, <<StrVal, ErrVal("native error")>>}
      [] OTHER -> {}

Methods == {"Disconnect", "IsConnected", "SendPresence", "GetProfilePictureInfo", "NoSuch"}

\* types.JID values: User, Server and Device of an identifier
ZeroJID == [User |-> "", Server |-> "", Device |-> 0]
JIDs == [User : {"", "123"}, Server : {"", "s.whatsapp.net"}, Device : {0, 2}]
JIDVal(j) == [kind |-> "JID", isnil |-> FALSE, val |-> j]
JIDPtr(j) == [kind |-> "*JID", isnil |-> FALSE, val |-> j]
JIDPtrNil == [kind |-> "*JID", isnil |-> TRUE, val |-> ZeroJID]

\* fmt's %d for the device numbers in use
Itoa(n) == IF n = 2 THEN "2" ELSE "0"

\* types.JID.String(): user:device@server, user@server, or the server alone
String(j) ==
    IF j.Device > 0 THEN j.User \o ":" \o Itoa(j.Device) \o "@" \o j.Server
    ELSE IF j.User # "" THEN j.User \o "@" \o j.Server
    ELSE j.Server

\* the phases of whatsmeow.MessageDebugTimings, in the order of the setMs calls;
\* a name is the sequence of its characters
PhaseNames ==
    << <<"Q", "u", "e", "u", "e">>,
       <<"M", "a", "r", "s", "h", "a", "l">>,
       <<"G", "e", "t", "P", "a", "r", "t", "i", "c", "i", "p", "a", "n", "t", "s">>,
       <<"G", "e", "t", "D", "e", "v", "i", "c", "e", "s">>,
       <<"G", "r", "o", "u", "p", "E", "n", "c", "r", "y", "p", "t">>,
       <<"P", "e", "e", "r", "E", "n", "c", "r", "y", "p", "t">>,
       <<"S", "e", "n", "d">>,
       <<"R", "e", "s", "p">>,
       <<"R", "e", "t", "r", "y">> >>
NumPhases == Len(PhaseNames)

UpperCase == <<"D", "E", "G", "M", "P", "Q", "R", "S">>
LowerCase == <<"d", "e", "g", "m", "p", "q", "r", "s">>

\* strings.ToLower, character by character
ToLowerChar(c) ==
    IF \E i \in 1..Len(UpperCase) : UpperCase[i] = c
    THEN LowerCase[CHOOSE i \in 1..Len(UpperCase) : UpperCase[i] = c]
    ELSE c
RECURSIVE Join(_)
Join(cs) == IF cs = <<>> THEN "" ELSE Head(cs) \o Join(Tail(cs))
ToLower(cs) == [i \in 1..Len(cs) |-> ToLowerChar(cs[i])]

\* the key setMs stores under: name[:1]+strings.ToLower(name[1:])+"Ms"
setMsKey(name) == Join(SubSeq(name, 1, 1)) \o Join(ToLower(Tail(name))) \o "Ms"

\* time.Duration.Milliseconds() divides, truncating; the durations a phase
\* can take: none, half a millisecond, two milliseconds
Milliseconds(d) == d \div Millisecond
Durations == {0, Millisecond \div 2, 2 * Millisecond}

\* the whatsmeow.SendResponse values the client's send can return: the debug
\* timings vary, a sequence of one duration per phase
SendResponses ==
    {[Timestamp |-> "2025-01-01T00:00:00Z", ID |-> "3EB0", ServerID |-> 0,
      Sender |-> [User |-> "123", Server |-> "s.whatsapp.net", Device |-> 2],
      DebugTimings |-> dt] : dt \in [1..NumPhases -> Durations]}
SendResponseVal(r) == [kind |-> "SendResponse", isnil |-> FALSE, val |-> r]

\* dm after the nine setMs calls: a key for every phase whose milliseconds
\* are not zero
DebugMap(dt) ==
    LET set == {i \in 1..NumPhases : Milliseconds(dt[i]) # 0}
    IN [k \in {setMsKey(PhaseNames[i]) : i \in set} |->
           Milliseconds(dt[CHOOSE i \in set : setMsKey(PhaseNames[i]) = k])]

\* the map built for a SendResponse; "debug" only if len(dm) > 0
FlattenSendResponse(r) ==
    LET out == [timestamp |-> r.Timestamp, id |-> r.ID, serverId |-> r.ServerID,
                sender |-> String(r.Sender)]
        dm == DebugMap(r.DebugTimings)
    IN IF DOMAIN dm # {} THEN out @@ [debug |-> dm] ELSE out

IsPointer(v) == v.kind \in {"ptr", "*JID"}

\* encodeReturn, for these kinds, in the order of its tests: a nil pointer of
\* any type gives nil; a SendResponse is flattened; a JID and a pointer to one
\* give String(); an interface value that is nil falls through to
\* `return v.Interface(), nil`, which is nil
encodeReturn(v) ==
    IF IsPointer(v) /\ v.isnil THEN Nil
    ELSE IF v.kind = "SendResponse" THEN FlattenSendResponse(v.val)
    ELSE IF v.kind = "JID" THEN [val |-> String(v.val)]
    ELSE IF v.kind = "*JID"
         THEN IF v.isnil THEN [val |-> ""] ELSE [val |-> String(v.val)]
    ELSE IF v.kind = "error" /\ v.isnil THEN Nil
    ELSE [val |-> v.val]

\* errv, ok := out[len(out)-1].Interface().(error): the assertion holds only for
\* a non-nil interface value
AssertsError(v) == v.kind = "error" /\ ~v.isnil

\* the envelope for the values rest: {} for none, the one value, or the array
Shaped(rest) ==
    IF Len(rest) = 0 THEN success(EmptyObj)
    ELSE IF Len(rest) = 1 THEN success(encodeReturn(rest[1]))
    ELSE success([arr |-> [i \in 1..Len(rest) |-> encodeReturn(rest[i])]])

\* "Handle error as last return", delivering what the method returned beside
\* a non-nil error
CallReturnLenient(out) ==
    LET n == Len(out)
        rest == IF n > 0 /\ out[n].kind = "error" THEN SubSeq(out, 1, n - 1) ELSE out
    IN IF Len(rest) = 0 THEN success(EmptyObj)
       ELSE IF Len(rest) = 1 THEN success(encodeReturn(rest[1]))
       ELSE success([arr |-> [i \in 1..Len(rest) |-> encodeReturn(rest[i])]])

\* "Handle error as last return" and what follows it
CallReturn(out) ==
    LET n == Len(out)
        isErr == n > 0 /\ AssertsError(out[n])
        rest == IF isErr /\ out[n].isnil THEN SubSeq(out, 1, n - 1) ELSE out
    IN IF isErr /\ ~out[n].isnil THEN fail(out[n].val)
       ELSE IF Len(rest) = 0 THEN success(EmptyObj)
       ELSE IF Len(rest) = 1 THEN success(encodeReturn(rest[1]))
       ELSE success([arr |-> [i \in 1..Len(rest) |-> encodeReturn(rest[i])]])

----------------------------------------------------------------------------
(* WmClientCall: the arguments.  A JSON text is [k, v, n, e]: its kind, its  *)
(* text (strings and objects), its number, its elements (arrays).           *)

JAbsent == [k |-> "absent", v |-> "", n |-> 0, e |-> <<>>]
JNull == [k |-> "null", v |-> "null", n |-> 0, e |-> <<>>]
JStr(s) == [k |-> "string", v |-> s, n |-> 0, e |-> <<>>]
JNum(x) == [k |-> "number", v |-> "", n |-> x, e |-> <<>>]
JBool == [k |-> "bool", v |-> "true", n |-> 0, e |-> <<>>]
JObj(text) == [k |-> "object", v |-> text, n |-> 0, e |-> <<>>]
JArr(es) == [k |-> "array", v |-> "", n |-> 0, e |-> es]

\* the declared parameters of a method of the client: "ctx" is context.Context;
\* var is TRUE when the last parameter is variadic (its type is then the
\* element type)
MethodSig(m) ==
    CASE m = "Disconnect" -> [in |-> <<>>, var |-> FALSE]
      [] m = "IsConnected" -> [in |-> <<>>, var |-> FALSE]
      [] m = "WaitForConnection" -> [in |-> <<"duration">>, var |-> FALSE]
      [] m = "SendPresence" -> [in |-> <<"string">>, var |-> FALSE]
      [] m = "GetProfilePictureInfo" -> [in |-> <<"jid", "struct">>, var |-> FALSE]
      [] m = "GetGroupInviteLink" -> [in |-> <<"jid", "bool">>, var |-> FALSE]
      [] m = "Upload" -> [in |-> <<"ctx", "string", "string">>, var |-> FALSE]
      [] m = "SendMessage" -> [in |-> <<"ctx", "jid", "struct", "struct">>, var |-> TRUE]
      [] OTHER -> [in |-> <<>>, var |-> FALSE]

\* rawArgs: the "args" field of the request as a list of JSON texts
ParseArgs(a) ==
    IF a.k \in {"absent", "null"} \/ (a.k = "object" /\ a.v = "{}") THEN <<>>
    ELSE IF a.k = "array" THEN a.e
    ELSE <<a>>

\* types.ParseJID: fails on a user part with more than one colon
JIDParses(s) == s # "1:2:3@s.whatsapp.net"

\* json.Unmarshal of raw into a value of type ty succeeds (null is accepted by
\* every type and leaves the zero value)
Decodes(raw, ty) ==
    \/ raw.k = "null"
    \/ ty = "string" /\ raw.k = "string"
    \/ ty = "bool" /\ raw.k = "bool"
    \/ ty = "duration" /\ raw.k = "number"
    \/ ty = "jid" /\ raw.k = "string" /\ JIDParses(raw.v)
    \/ ty = "struct" /\ raw.k = "object"

\* the value convertArg builds from raw for a parameter of type ty
Converted(raw, ty) ==
    [type |-> ty,
     val |-> IF raw.k = "null" THEN "" ELSE raw.v,
     num |-> IF ty = "duration" THEN raw.n * Millisecond ELSE 0,
     el |-> <<>>]

\* convertArg: [ok, val, err]
convertArg(raw, ty) ==
    IF Decodes(raw, ty)
    THEN [ok |-> TRUE, val |-> Converted(raw, ty), err |-> ""]
    ELSE [ok |-> FALSE, val |-> Nil, err |-> "cannot convert to " \o ty]

\* convertArg for the slice type of a variadic parameter: an array whose
\* elements all decode
convertSlice(raw, ty) ==
    IF raw.k = "array" /\ \A j \in 1..Len(raw.e) : Decodes(raw.e[j], ty)
    THEN [ok |-> TRUE,
          val |-> [type |-> "slice", val |-> "", num |-> 0,
                   el |-> [j \in 1..Len(raw.e) |-> Converted(raw.e[j], ty)]],
          err |-> ""]
    ELSE [ok |-> FALSE, val |-> Nil, err |-> "cannot convert to slice of " \o ty]

\* a context parameter that takes the next JSON argument with it
AfterContextTakesOne(ai) == ai + 1

\* the index of the next JSON argument after a context parameter: `continue`
\* leaves ai alone
AfterContext(ai) == ai

\* a wrapping that loses the argument
WrapNone(raw) == JArr(<<>>)

\* json.Marshal([]json.RawMessage{rawArgs[ai]})
WrapOne(raw) == JArr(<<raw>>)

ctxBackground == [type |-> "ctx", val |-> "", num |-> 0, el |-> <<>>]
emptySlice == [type |-> "slice", val |-> "", num |-> 0, el |-> <<>>]

\* the number an error message gives for the parameter with declared index i
\* (from 0) that takes the JSON argument with index ai (from 0): fmt.Errorf is
\* given i
NamedIndex(i, ai) == i

MissingArgument(m, k) == "missing argument " \o ToString(k) \o " for " \o m
BadArgument(k, err) == "arg " \o ToString(k) \o ": " \o err

\* the parameter loop: i is the declared index, ai the index of the next JSON
\* argument (both from 0), acc the arguments built so far
RECURSIVE BuildArgs(_, _, _, _, _, _)
BuildArgs(m, sig, raws, i, ai, acc) ==
    IF i >= Len(sig.in) THEN [ok |-> TRUE, args |-> acc, err |-> "", used |-> ai]
    ELSE LET pt == sig.in[i + 1] IN
         IF pt = "ctx"
         THEN BuildArgs(m, sig, raws, i + 1, AfterContext(ai), Append(acc, ctxBackground))
         ELSE IF sig.var /\ i = Len(sig.in) - 1
         THEN IF ai >= Len(raws)
              THEN BuildArgs(m, sig, raws, i + 1, ai, Append(acc, emptySlice))
              ELSE LET raw == raws[ai + 1]
                       c == IF raw.k = "array" THEN convertSlice(raw, pt)
                            ELSE convertSlice(WrapOne(raw), pt)
                   IN IF ~c.ok
                      THEN [ok |-> FALSE, args |-> <<>>,
                            err |-> BadArgument(NamedIndex(i, ai), c.err), used |-> ai]
                      ELSE BuildArgs(m, sig, raws, i + 1, ai + 1, Append(acc, c.val))
         ELSE IF ai >= Len(raws)
         THEN [ok |-> FALSE, args |-> <<>>,
               err |-> MissingArgument(m, NamedIndex(i, ai)), used |-> ai]
         ELSE LET c == convertArg(raws[ai + 1], pt)
              IN IF ~c.ok
                 THEN [ok |-> FALSE, args |-> <<>>,
                       err |-> BadArgument(NamedIndex(i, ai), c.err), used |-> ai]
                 ELSE BuildArgs(m, sig, raws, i + 1, ai + 1, Append(acc, c.val))

\* the arguments of the invocation: none is checked for being left over
PrepareArgs(m, sig, raws) == BuildArgs(m, sig, raws, 0, 0, <<>>)

NotInvoked == [called |-> FALSE, args |-> <<>>]
Invoked(args) == [called |-> TRUE, args |-> args]

\* an invocation that takes place although an argument was refused
InvokeAnyway(b) == Invoked(b.args)

\* meth.Call / meth.CallSlice are reached only with every argument built
InvokeIfBuilt(b) == IF b.ok THEN Invoked(b.args) ELSE NotInvoked

\* rv.MethodByName(payload.Method) finds something whatever the name
MethodIsValidAlways(m) == TRUE

\* rv.MethodByName(payload.Method).IsValid()
MethodIsValid(m) == MethodOuts(m) # {}

\* what WmClientCall returns, the argument list it derived and whether it
\* invoked the method, for a client that exists: [resp, raws, inv]
Dispatch(m, a, out) ==
    IF ~MethodIsValid(m)
    THEN [resp |-> fail("method not found: " \o m), raws |-> <<>>, inv |-> NotInvoked]
    ELSE LET raws == ParseArgs(a)
             b == PrepareArgs(m, MethodSig(m), raws)
         IN [resp |-> IF b.ok THEN CallReturn(out) ELSE fail(b.err),
             raws |-> raws,
             inv |-> InvokeIfBuilt(b)]

\* the record of a call of WmClientCall that returned
CallRet(t, h, m, a, out, d) ==
    [t |-> t, op |-> "WmClientCall", h |-> h, tmo |-> 0, via |-> "", resp |-> d.resp,
     method |-> m, args |-> a, raws |-> d.raws, out |-> out, inv |-> d.inv]

WmClientCall(t, h, m, a, out) ==
    /\ IsIdle(t)
    /\ out \in (IF MethodOuts(m) = {} THEN {<<>>} ELSE MethodOuts(m))
    /\ IF ~RegistryLookup(clients, h)
       THEN Immediate(t, "WmClientCall", h, 0, fail("client handle not found"))
       ELSE /\ rets' = {CallRet(t, h, m, a, out, Dispatch(m, a, out))}
            /\ UNCHANGED thr
    /\ UNCHANGED <<nextHandle, regs, devicesMu, objs, hist>>
    /\ UNCHANGED logs
    /\ UNCHANGED host

\* what a call of method m can come back with; nothing comes back from a method
\* the client does not have
OutsOf(m) == IF MethodOuts(m) = {} THEN {<<>>} ELSE MethodOuts(m)

\* the arguments the TypeScript wrapper passes for a well-formed call of m
UsualArgs(m) ==
    CASE m = "SendPresence" -> JArr(<<JStr("available")>>)
      [] m = "GetProfilePictureInfo" -> JArr(<<JStr("123@s.whatsapp.net"), JNull>>)
      [] OTHER -> JArr(<<>>)

----------------------------------------------------------------------------
(* The bridge from its start: the registry, the envelope and the lookups   *)
(* under concurrent boundary calls                                          *)

Ops == {"WmOpenContainer", "WmRelease"}

Alloc ==
    \/ \E t \in Threads, o \in {"ok", "empty"} : WmOpenContainer(t, o)
    \/ \E t \in Threads, h \in ArgsOf("container"), o \in {"ok", "nativeerr"} :
          WmContainerGetFirstDevice(t, h, o)
    \/ \E t \in Threads, h \in ArgsOf("container"),
          o \in {"ok", "badjid", "absent"} : WmContainerGetDevice(t, h, o)
    \/ \E t \in Threads, h \in ArgsOf("container"), n \in -1..MaxDevs :
          WmContainerGetAllDevices(t, h, n)
    \/ \E t \in Threads : GetAllDevicesLock(t)
    \/ \E t \in Threads : GetAllDevicesLoop(t)
    \/ \E t \in Threads, h \in ArgsOf("device") : WmNewClient(t, h)
    \/ \E t \in Threads, h \in ArgsOf("client") : WmClientStartEvents(t, h)
    \/ \E t \in Threads, h \in ArgsOf("client"), o \in {"ok", "nativeerr"} :
          WmClientGetQRChannel(t, h, o)
    \/ \E t \in Threads : StoreStep(t)

Polls(T) ==
    \/ \E t \in Threads, h \in ArgsOf("event"), tmo \in T : WmEventNext(t, h, tmo)
    \/ \E t \in Threads : EventSelect(t)
    \/ \E t \in Threads : TimerFire(t)
    \/ \E s \in pendingRm : RemoveEventHandler(s)
    \/ \E t \in Threads, h \in ArgsOf("qr"), tmo \in T : WmQRNext(t, h, tmo)
    \/ \E t \in Threads : QRSelect(t)

Next ==
    \/ \E t \in Threads, op \in Ops : BadRequest(t, op)
    \/ Alloc
    \/ Polls({250})
    \/ \E t \in Threads, h \in 0..nextHandle : WmRelease(t, h)
    \/ \E t \in Threads, h \in ArgsOf("client"), m \in Methods :
          \E out \in OutsOf(m) : WmClientCall(t, h, m, UsualArgs(m), out)

Spec == Init /\ [][Next]_vars

----------------------------------------------------------------------------
(* The streams of one client.  The start is the state Spec reaches when      *)
(* WmOpenContainer, WmContainerGetFirstDevice and WmNewClient have returned  *)
(* the handles 1, 2 and 3.                                                   *)

InitClient ==
    /\ nextHandle = 3
    /\ containers = {1}
    /\ devices = {2}
    /\ clients = {3}
    /\ qrs = {}
    /\ eventsMap = {}
    /\ devicesMu = 0
    /\ streams = <<>>
    /\ qrobj = <<>>
    /\ cli = (3 :> [disc |-> 0, notes |-> 0])
    /\ cont = (1 :> [closes |-> 0])
    /\ pendingRm = {}
    /\ thr = [t \in Threads |-> Idle]
    /\ rets = {Ret(1, "WmNewClient", 2, 0, "", success([handle |-> 3]))}
    /\ issued = <<1, 2, 3>>
    /\ kindOf = (1 :> "container") @@ (2 :> "device") @@ (3 :> "client")
    /\ released = {}
    /\ logCfg = DefaultLogCfg
    /\ loggers = (1 :> newDBLogger) @@ (3 :> newClientLogger)
    /\ HostIdle

StreamArgs == ArgsOf("event") \cup ArgsOf("qr")

QRProducer ==
    \/ \E q \in DOMAIN qrobj : QRStartEmitter(q)
    \/ \E q \in DOMAIN qrobj : QREmitCode(q)
    \/ \E q \in DOMAIN qrobj, k \in QRTerminals : QRTerminal(q, k)
    \/ \E q \in DOMAIN qrobj : QRCtxDone(q)

NextStreams ==
    \/ \E t \in Threads : WmClientStartEvents(t, 3)
    \/ \E t \in Threads : WmClientGetQRChannel(t, 3, "ok")
    \/ \E t \in Threads : StoreStep(t)
    \/ \E raw \in RawEvents \cup {"nil"} : Notify(3, raw, MaxNotify)
    \/ Polls(Timeouts)
    \/ QRProducer
    \/ \E t \in Threads, h \in StreamArgs : WmRelease(t, h)

SpecStreams == InitClient /\ [][NextStreams]_vars

\* Every step of a boundary call that can be taken is taken, and so is the close
\* of q.ch by a running emitter that sees its context cancelled.  When the server
\* sends notifications or QR codes, and when a caller makes a call, is free.
FairStreams ==
    /\ SpecStreams
    /\ \A t \in Threads : WF_vars(StoreStep(t))
    /\ \A t \in Threads : WF_vars(EventSelect(t))
    /\ \A t \in Threads : WF_vars(QRSelect(t))
    /\ \A t \in Threads : WF_vars(TimerFire(t))
    /\ \A q \in 1..MaxHandle : WF_vars(QRCtxDone(q))
    /\ \A s \in 1..MaxHandle : WF_vars(RemoveEventHandler(s))

----------------------------------------------------------------------------
(* One event stream under a burst of notifications, polled by one thread.   *)
(* The start is the state SpecStreams reaches when WmClientStartEvents has  *)
(* returned handle 4.                                                       *)

InitStream ==
    /\ nextHandle = 4
    /\ containers = {1}
    /\ devices = {2}
    /\ clients = {3}
    /\ qrs = {}
    /\ eventsMap = {4}
    /\ devicesMu = 0
    /\ streams = (4 :> NewEventStream(3))
    /\ qrobj = <<>>
    /\ cli = (3 :> [disc |-> 0, notes |-> 0])
    /\ cont = (1 :> [closes |-> 0])
    /\ pendingRm = {}
    /\ thr = [t \in Threads |-> Idle]
    /\ rets = {Ret(1, "WmClientStartEvents", 3, 0, "", success([handle |-> 4]))}
    /\ issued = <<1, 2, 3, 4>>
    /\ kindOf = (1 :> "container") @@ (2 :> "device") @@ (3 :> "client") @@ (4 :> "event")
    /\ released = {}
    /\ logCfg = DefaultLogCfg
    /\ loggers = (1 :> newDBLogger) @@ (3 :> newClientLogger)
    /\ HostIdle

\* the burst alternates the two kinds of notification
BurstRaw == IF cli[3].notes % 2 = 0 THEN "Connected" ELSE "Message"

NextBurst ==
    \/ Notify(3, BurstRaw, MaxBurst)
    \/ \E tmo \in {0, 250} : WmEventNext(1, 4, tmo)
    \/ EventSelect(1)
    \/ TimerFire(1)

SpecBurst == InitStream /\ [][NextBurst]_vars


----------------------------------------------------------------------------
(* The burst until a second thread releases the stream, at any moment.      *)

NextBurstRelease ==
    \/ 4 \in eventsMap /\ NextBurst
    \/ WmRelease(2, 4)
    \/ RemoveEventHandler(4)

SpecBurstRelease == InitStream /\ [][NextBurstRelease]_vars

----------------------------------------------------------------------------
(* Release and teardown: the streams of one client, with every handle        *)
(* released by either thread, the handles of the client, the device and the  *)
(* container included.                                                       *)

NextTeardown ==
    \/ \E t \in Threads : WmClientStartEvents(t, 3)
    \/ \E t \in Threads : WmClientGetQRChannel(t, 3, "ok")
    \/ \E t \in Threads : StoreStep(t)
    \/ \E raw \in RawEvents : Notify(3, raw, MaxNotify)
    \/ \E t \in Threads, h \in 0..nextHandle : WmRelease(t, h)
    \/ \E s \in pendingRm : RemoveEventHandler(s)

SpecTeardown == InitClient /\ [][NextTeardown]_vars

\* the goroutine WmRelease starts for RemoveEventHandler runs, and a call that
\* drew its handle stores its object
FairTeardown ==
    /\ SpecTeardown
    /\ \A t \in Threads : WF_vars(StoreStep(t))
    /\ \A s \in 1..MaxHandle : WF_vars(RemoveEventHandler(s))

----------------------------------------------------------------------------
(* The dispatcher on its own: one client (handle 3), every method of the     *)
(* table, every "args" field of at most MaxArgs elements.  A call changes    *)
(* nothing but what it returns, so the behaviours are those of one call.    *)

DispatchMethods ==
    Methods \cup {"WaitForConnection", "GetGroupInviteLink", "Upload", "SendMessage"}

\* the JSON texts an argument is drawn from
ArgTexts ==
    {JStr("123@s.whatsapp.net"), JStr("1:2:3@s.whatsapp.net"), JNum(250), JBool, JNull,
     JObj("{\"id\":1}"), JArr(<<JObj("{\"id\":1}"), JObj("{\"id\":1}")>>)}

RECURSIVE SeqsUpTo(_, _)
SeqsUpTo(S, n) ==
    IF n = 0 THEN {<<>>}
    ELSE LET shorter == SeqsUpTo(S, n - 1)
         IN shorter \cup {Append(q, x) : q \in {r \in shorter : Len(r) = n - 1}, x \in S}

\* the values of the "args" field of a request
ArgFields ==
    {JAbsent, JNull, JObj("{}"), JObj("{ }"), JObj("{\"id\":1}"), JStr("123@s.whatsapp.net")}
        \cup {JArr(q) : q \in SeqsUpTo(ArgTexts, MaxArgs)}

NextCall ==
    /\ \A r \in rets : r.op # "WmClientCall"
    /\ \/ \E t \in Threads : BadRequest(t, "WmClientCall")
       \/ \E t \in Threads, h \in {0, 3}, m \in DispatchMethods, a \in ArgFields :
          \E out \in OutsOf(m) : WmClientCall(t, h, m, a, out)

SpecCall == InitClient /\ [][NextCall]_vars

----------------------------------------------------------------------------
(* The log configuration under concurrent boundary calls.  From the state   *)
(* with one container, device and client, built under the default           *)
(* configuration, a container or a client is created while the             *)
(* configuration is changed, and any boundary function may be handed a      *)
(* request that is not JSON                                                 *)

\* every exported function that takes a JSON request
BoundaryFunctions ==
    {"WmSetLogOptions", "WmClientIsLoggedIn", "WmClientHasStoreID",
     "WmClientDisconnect", "WmClientWaitForConnection", "WmClientStartEvents",
     "WmEventNext", "WmOpenContainer", "WmContainerGetFirstDevice",
     "WmContainerGetAllDevices", "WmContainerGetDevice", "WmNewClient",
     "WmClientConnect", "WmClientGetQRChannel", "WmQRNext",
     "WmClientSendPresence", "WmClientSubscribePresence",
     "WmClientSendChatPresence", "WmClientUpload", "WmClientDownloadByPath",
     "WmClientGetGroupInviteLink", "WmClientCall", "WmRelease"}

LogRequests ==
    [Database : LevelTexts \cup {""}, Client : LevelTexts \cup {""},
     Color : {ColorNil, ColorPtr(TRUE), ColorPtr(FALSE)}]

NextLog ==
    \/ \E t \in Threads, req \in LogRequests : WmSetLogOptions(t, req)
    \/ \E t \in Threads, op \in BoundaryFunctions : BadRequest(t, op)
    \/ \E t \in Threads : WmOpenContainer(t, "ok")
    \/ \E t \in Threads, h \in ArgsOf("device") : WmNewClient(t, h)
    \/ \E t \in Threads : StoreStep(t)

SpecLog == InitClient /\ [][NextLog]_vars

----------------------------------------------------------------------------
(* The postinstall script: run() of the installer, from the environment     *)
(* and the three sources it finds                                           *)

\* what the script finds: the environment variables, the file under
\* prebuilt/<triplet>/ (there, not there, or there and not copyable), the
\* release asset, and how npm run build:go would end
InstallInputs ==
    [skip : BOOLEAN, fromSource : BOOLEAN,
     local : {"present", "absent", "unreadable"},
     remote : {"asset", "none"},
     build : {"ok", "nonzero", "nofile", "throws"}]

InstallStart(in) ==
    [pc |-> "run", in |-> in, tried |-> <<>>, got |-> "none", ran |-> <<>>]

InitInstall ==
    /\ nextHandle = 0
    /\ containers = {}
    /\ devices = {}
    /\ clients = {}
    /\ qrs = {}
    /\ eventsMap = {}
    /\ devicesMu = 0
    /\ streams = <<>>
    /\ qrobj = <<>>
    /\ cli = <<>>
    /\ cont = <<>>
    /\ pendingRm = {}
    /\ thr = [t \in Threads |-> Idle]
    /\ rets = {}
    /\ issued = <<>>
    /\ kindOf = <<>>
    /\ released = {}
    /\ logCfg = DefaultLogCfg
    /\ loggers = <<>>
    /\ \E in \in InstallInputs : inst = InstallStart(in)
    /\ wk = NoWorker
    /\ iter = NoIterator
    /\ nat = NoCalls

\* a step of the script: the bridge is not loaded yet
InstallStep(next) ==
    /\ inst' = next
    /\ UNCHANGED <<nextHandle, regs, devicesMu, objs, thr, rets, hist, logs>>
    /\ UNCHANGED <<wk, iter, nat>>

\* if (process.env.WHATS_SKIP_POSTINSTALL === 'true') return
InstallSkipCheck ==
    /\ inst.pc = "run"
    /\ InstallStep([inst EXCEPT !.pc = IF inst.in.skip THEN "done" ELSE "copy"])

\* copyIfExists(prebuilt, buildOut): false on ENOENT, any other error is thrown
\* out of run() and reported by its catch
copyIfExists ==
    CASE inst.in.local = "present" -> "true"
      [] inst.in.local = "absent" -> "false"
      [] OTHER -> "throws"

InstallCopy ==
    /\ inst.pc = "copy"
    /\ InstallStep([inst EXCEPT
          !.tried = Append(@, "copy"),
          !.got = IF copyIfExists = "true" THEN "local" ELSE @,
          !.pc = CASE copyIfExists = "true" -> "done"
                   [] copyIfExists = "false" -> "download"
                   [] OTHER -> "failed"])

\* downloadTo(url, dstPath), statement by statement in the order of the file:
\* mkdir of the directory, rename(tmp, dstPath), const tmp = dstPath.download,
\* unlink(tmp), httpGet(url), the pipe of the response into tmp
DownloadToStatements ==
    <<"mkdir", "rename", "const tmp", "unlink", "httpGet", "pipe">>

\* the statements whose arguments read tmp
ReadsTmp == {"rename", "unlink", "pipe"}

Position(stmt) ==
    CHOOSE i \in DOMAIN DownloadToStatements : DownloadToStatements[i] = stmt

\* a const is in its temporal dead zone above its declaration: reading it
\* there throws a ReferenceError before the call that takes it is made
FirstThrow ==
    IF \E s \in ReadsTmp : Position(s) < Position("const tmp")
    THEN CHOOSE i \in DOMAIN DownloadToStatements :
            /\ DownloadToStatements[i] \in ReadsTmp
            /\ \A j \in 1..(i - 1) : DownloadToStatements[j] \notin ReadsTmp
    ELSE 0

\* the statements of downloadTo that were carried out
Executed ==
    IF FirstThrow = 0 THEN DownloadToStatements
    ELSE SubSeq(DownloadToStatements, 1, FirstThrow - 1)

\* downloadTo throws at the first read of tmp above its declaration, whatever
\* the server has; httpGet rejects when the answer is not 200
downloadTo ==
    IF FirstThrow # 0 THEN "throws"
    ELSE IF inst.in.remote = "asset" THEN "returns" ELSE "throws"

\* downloadPrebuilt(): true when downloadTo returned, false when it threw
downloadPrebuilt == downloadTo # "throws"

InstallDownload ==
    /\ inst.pc = "download"
    /\ InstallStep([inst EXCEPT
          !.tried = Append(@, "download"),
          !.ran = Executed,
          !.got = IF downloadPrebuilt THEN "remote" ELSE @,
          !.pc = CASE downloadPrebuilt -> "done"
                   [] inst.in.fromSource -> "build"
                   [] OTHER -> "warn"])

\* spawnSync npm run build:go; res.status === 0 && fs.existsSync(buildOut)
InstallBuild ==
    /\ inst.pc = "build"
    /\ InstallStep([inst EXCEPT
          !.tried = Append(@, "build"),
          !.got = IF inst.in.build = "ok" THEN "built" ELSE @,
          !.pc = IF inst.in.build = "ok" THEN "done" ELSE "warn"])

\* the warnings after every source failed
InstallWarn ==
    /\ inst.pc = "warn"
    /\ InstallStep([inst EXCEPT !.pc = "done"])

NextInstall ==
    \/ InstallSkipCheck
    \/ InstallCopy
    \/ InstallDownload
    \/ InstallBuild
    \/ InstallWarn

SpecInstall == InitInstall /\ [][NextInstall]_vars

----------------------------------------------------------------------------
(* native.call: the host's side of a boundary call.  The bound function is  *)
(* called synchronously; the text it returns is parsed and answered with    *)
(* the data of the envelope or with an exception.                           *)

\* a call that hands back the data whatever ok says
NativeCallLenient(env) ==
    [threw |-> FALSE, value |-> IF HasData(env) THEN env.data ELSE Undefined]

\* const data = JSON.parse(json); if (!data.ok) throw new Error(data.error);
\* return data.data.  A key the envelope omits reads as undefined, and
\* new Error(undefined) has the empty message.
NativeCall(env) ==
    IF ~env.ok
    THEN [threw |-> TRUE, message |-> IF HasError(env) THEN env.error ELSE ""]
    ELSE [threw |-> FALSE, value |-> IF HasData(env) THEN env.data ELSE Undefined]

\* the return type a boundary function is bound with: every entry of fns that
\* returns an envelope, and the dynamic lib.func for the rest, says 'str'
ReturnType(fn) == "str"

\* out = bound(input): koffi copies a 'str' result into a string of the host
\* and hands a result of any other type over as the buffer itself
Received(fn) == IF ReturnType(fn) = "str" THEN "string" ELSE "Buffer"

\* a finally block that frees whatever came back
FreeCallsAlways(out) == 1

\* the finally block of call: the number of times out is given to
\* WmFreeCString, on a return and on a throw alike
FreeCalls(out) == IF out = "Buffer" THEN 1 ELSE 0

\* what thread t keeps of a call: the function, the envelope, the outcome,
\* how the result was received and how often it was freed
Outcome(r) ==
    [fn |-> r.op, env |-> r.resp, out |-> NativeCall(r.resp),
     conv |-> Received(r.op), frees |-> FreeCalls(Received(r.op))]

\* the bridge but for the envelopes in flight
bridge == <<nextHandle, regs, devicesMu, objs, thr, hist, logs>>

\* the boundary call of thread t has returned: call() goes on from bound(input)
NativeReturn(t) ==
    \E r \in rets :
       /\ r.t = t
       /\ nat' = [nat EXCEPT ![t] = Outcome(r)]
       /\ rets' = rets \ {r}
       /\ UNCHANGED bridge
       /\ UNCHANGED <<inst, wk, iter>>

\* the thread of the host's main program
JsThread == 1

\* Boundary calls through native.call: the main program calls any function,
\* a second thread releases handles under it; a call returns into call()
\* before the host does anything else.
NextNative ==
    \/ \E t \in Threads : NativeReturn(t)
    \/ rets = {} /\ \E op \in BoundaryFunctions : BadRequest(JsThread, op)
    \/ rets = {} /\ \E h \in ArgsOf("client"), m \in Methods :
          \E out \in OutsOf(m) : WmClientCall(JsThread, h, m, UsualArgs(m), out)
    \/ rets = {} /\ \E t \in Threads, h \in 0..nextHandle : WmRelease(t, h)
    \/ rets = {} /\ \E h \in ArgsOf("client") : WmClientStartEvents(JsThread, h)
    \/ rets = {} /\ StoreStep(JsThread)
    \/ rets = {} /\ \E h \in ArgsOf("event") : WmEventNext(JsThread, h, 250)
    \/ rets = {} /\ EventSelect(JsThread)
    \/ rets = {} /\ TimerFire(JsThread)
    \/ rets = {} /\ \E raw \in RawEvents : Notify(3, raw, 1)

SpecNative == InitClient /\ [][NextNative]_vars

----------------------------------------------------------------------------
(* Client.events(): the async iterator over the event stream of client 3,   *)
(* run by the main program.  Its methods have no await before their last    *)
(* statement, so a call of next(), return() or throw() runs to its end      *)
(* before the consumer can make another.                                    *)

Done == [done |-> TRUE]

Yield(v) == [done |-> FALSE, value |-> v]

Rejected(msg) == [rejected |-> msg]

\* what a method of the iterator settled with
Settled(by, res) == [by |-> by, res |-> res]

\* the timeoutMs an iterator is made with
IterTimeouts == {0, 250}

Pending(t) == \E r \in rets : r.t = t

\* a step of the host alone
HostStep ==
    /\ rets' = {}
    /\ UNCHANGED bridge

\* the iterators taken from one iterable
MaxIterators == 2

\* the closure of a new iterator: closed = false, h = null.  Beside these the
\* record keeps the number of streams the iterator has started, and of the
\* iterable the number of iterators made and the handles of the earlier ones
NewIterator(tmo, n, prev) ==
    [pc |-> "idle", closed |-> FALSE, h |-> 0, tmo |-> tmo, last |-> Undefined,
     started |-> 0, n |-> n, prev |-> prev]

\* client.events(timeoutMs)[Symbol.asyncIterator]()
IterNew(tmo) ==
    /\ iter = NoIterator
    /\ ~Pending(JsThread)
    /\ iter' = NewIterator(tmo, 1, {})
    /\ HostStep
    /\ UNCHANGED <<inst, wk, nat>>

\* [Symbol.asyncIterator]() once more on the same iterable: another closure;
\* the consumer goes on with the new iterator
IterAgain ==
    /\ iter.pc = "idle"
    /\ iter.n < MaxIterators
    /\ ~Pending(JsThread)
    /\ iter' = NewIterator(iter.tmo, iter.n + 1,
                           iter.prev \cup (IF iter.h # 0 THEN {iter.h} ELSE {}))
    /\ HostStep
    /\ UNCHANGED <<inst, wk, nat>>

\* a next() that starts a stream whatever closed and h say
IterCallNextAlwaysEnsures ==
    /\ iter.pc = "idle"
    /\ ~Pending(JsThread)
    /\ iter' = [iter EXCEPT !.pc = "ensure"]
    /\ HostStep
    /\ UNCHANGED <<inst, wk, nat>>

\* next() up to its first native call: if (closed) return {done: true};
\* ensure() calls clientStartEvents only while h is null
IterCallNext ==
    /\ iter.pc = "idle"
    /\ ~Pending(JsThread)
    /\ iter' = IF iter.closed
               THEN [iter EXCEPT !.last = Settled("next", Done)]
               ELSE [iter EXCEPT !.pc = IF iter.h = 0 THEN "ensure" ELSE "poll"]
    /\ HostStep
    /\ UNCHANGED <<inst, wk, nat>>

\* return() up to native.release: if (h != null) release, then closed = true
IterCallReturn ==
    /\ iter.pc = "idle"
    /\ ~Pending(JsThread)
    /\ iter' = IF iter.h # 0
               THEN [iter EXCEPT !.pc = "return"]
               ELSE [iter EXCEPT !.closed = TRUE, !.last = Settled("return", Done)]
    /\ HostStep
    /\ UNCHANGED <<inst, wk, nat>>

\* throw(err): closed = true; return Promise.reject(err)
IterCallThrow ==
    /\ iter.pc = "idle"
    /\ ~Pending(JsThread)
    /\ iter' = [iter EXCEPT !.closed = TRUE, !.last = Settled("throw", Rejected("err"))]
    /\ HostStep
    /\ UNCHANGED <<inst, wk, nat>>

\* a next() that hands every result of the poll to the consumer
AfterPollYieldsAll(it, o) ==
    IF o.threw THEN [it EXCEPT !.pc = "idle", !.last = Settled("next", Rejected(o.message))]
    ELSE [it EXCEPT !.pc = "idle", !.last = Settled("next", Yield(o.value))]

\* next() after native.eventNext came back with outcome o: a throw rejects;
\* 'closed' sets closed and ends; 'timeout' is `return this.next()`, which
\* with closed false and h set goes straight to eventNext again; anything
\* else is given to the consumer
AfterPoll(it, o) ==
    CASE o.threw ->
           [it EXCEPT !.pc = "idle", !.last = Settled("next", Rejected(o.message))]
      [] ~o.threw /\ o.value = Undefined ->
           [it EXCEPT !.pc = "idle", !.last = Settled("next", Rejected("TypeError"))]
      [] ~o.threw /\ o.value # Undefined /\ o.value.type = "closed" ->
           [it EXCEPT !.pc = "idle", !.closed = TRUE, !.last = Settled("next", Done)]
      [] ~o.threw /\ o.value # Undefined /\ o.value.type = "timeout" ->
           [it EXCEPT !.pc = "poll"]
      [] OTHER ->
           [it EXCEPT !.pc = "idle", !.last = Settled("next", Yield(o.value))]

\* ensure() after native.clientStartEvents came back: a throw rejects next(),
\* else h = handle and next() goes on to eventNext
AfterEnsure(it, o) ==
    IF o.threw
    THEN [it EXCEPT !.pc = "idle", !.last = Settled("next", Rejected(o.message))]
    ELSE [it EXCEPT !.h = o.value.handle, !.pc = "poll", !.started = @ + 1]

\* return() after native.release came back, thrown or not (try {} catch {})
AfterRelease(it, o) ==
    [it EXCEPT !.pc = "idle", !.closed = TRUE, !.last = Settled("return", Done)]

\* the native call of the iterator has returned
IterResume ==
    \E r \in rets :
       /\ r.t = JsThread
       /\ iter.pc \in {"ensure", "poll", "return"}
       /\ LET o == NativeCall(r.resp)
          IN iter' = CASE iter.pc = "ensure" -> AfterEnsure(iter, o)
                       [] iter.pc = "poll" -> AfterPoll(iter, o)
                       [] OTHER -> AfterRelease(iter, o)
       /\ nat' = [nat EXCEPT ![JsThread] = Outcome(r)]
       /\ rets' = rets \ {r}
       /\ UNCHANGED bridge
       /\ UNCHANGED <<inst, wk>>

\* ensure(): native.clientStartEvents(self.handle)
IterEnsure ==
    /\ iter.pc = "ensure"
    /\ ~Pending(JsThread)
    /\ WmClientStartEvents(JsThread, 3)

\* native.eventNext(h, timeoutMs)
IterPoll ==
    /\ iter.pc = "poll"
    /\ ~Pending(JsThread)
    /\ WmEventNext(JsThread, iter.h, iter.tmo)

\* native.release(h) of return()
IterRelease ==
    /\ iter.pc = "return"
    /\ ~Pending(JsThread)
    /\ WmRelease(JsThread, iter.h)

\* the main program's call that made the client returns; then the iterator
\* and its consumer, the steps of the bridge inside the calls, notifications
\* of the client, and a second thread that releases the stream or the client
NextIter ==
    \/ iter.pc \in {"off", "idle"} /\ NativeReturn(JsThread)
    \/ \E tmo \in IterTimeouts : IterNew(tmo)
    \/ IterCallNext
    \/ IterCallReturn
    \/ IterCallThrow
    \/ IterResume
    \/ IterEnsure
    \/ IterPoll
    \/ IterRelease
    \/ ~Pending(JsThread) /\ StoreStep(JsThread)
    \/ ~Pending(JsThread) /\ EventSelect(JsThread)
    \/ ~Pending(JsThread) /\ TimerFire(JsThread)
    \/ ~Pending(JsThread) /\ \E raw \in RawEvents : Notify(3, raw, MaxNotify)
    \/ ~Pending(JsThread) /\ \E h \in 3..nextHandle : WmRelease(2, h)
    \/ ~Pending(JsThread) /\ \E s \in pendingRm : RemoveEventHandler(s)

SpecIter == InitClient /\ [][NextIter]_vars

\* the same with a consumer that takes a second iterator from the iterable
NextIterables ==
    \/ NextIter
    \/ IterAgain

SpecIterables == InitClient /\ [][NextIterables]_vars

----------------------------------------------------------------------------
(* The event worker and the QR worker, and the controller that stops them.  *)
(* The body of a worker is an async function without an await: after the    *)
(* worker is spawned it runs from its first statement to port.close() as    *)
(* one task, each native call blocking the worker's thread, and the         *)
(* 'message' handler of the port can run only between tasks.                *)

\* the thread of the bridge a worker calls on
WkThread == 2

\* the timeoutMs a worker polls with (500 and 2000 by default: positive)
WorkerTimeout == 250

\* WmClientHasStoreID: whether the store of the client has a JID
WmClientHasStoreID(t, h, has) ==
    /\ IsIdle(t)
    /\ Immediate(t, "WmClientHasStoreID", h, 0,
                 IF ~RegistryLookup(clients, h) THEN fail("client handle not found")
                 ELSE success([has |-> has]))
    /\ UNCHANGED <<nextHandle, regs, devicesMu, objs, hist>>
    /\ UNCHANGED logs
    /\ UNCHANGED host

\* spawnEventWorker(client) or spawnQRWorker(client): new Worker(..); the
\* worker sets running = true, its handle to null, and enters its function
SpawnWorker(kind) ==
    /\ wk = NoWorker
    /\ ~Pending(WkThread)
    /\ wk' = [pc |-> IF kind = "qr" THEN "hasid" ELSE "start", kind |-> kind,
              running |-> TRUE, handle |-> 0, portOpen |-> TRUE, inbox |-> 0,
              ctl |-> "idle", killed |-> FALSE, stopAt |-> "none"]
    /\ HostStep
    /\ UNCHANGED <<inst, iter, nat>>

\* native.clientHasStoreID(client), the first statement of the QR worker
WkHasStoreID ==
    /\ wk.pc = "hasid"
    /\ ~Pending(WkThread)
    /\ \E has \in BOOLEAN : WmClientHasStoreID(WkThread, 3, has)

\* native.clientStartEvents(client) or native.clientGetQR(client)
WkStart ==
    /\ wk.pc = "start"
    /\ ~Pending(WkThread)
    /\ IF wk.kind = "event" THEN WmClientStartEvents(WkThread, 3)
       ELSE \E o \in {"ok", "nativeerr"} : WmClientGetQRChannel(WkThread, 3, o)

\* while (running) { native.eventNext(h, timeoutMs) or native.qrNext(..) }:
\* the test of running and, when it holds, the call
WkPoll ==
    /\ wk.pc = "loop"
    /\ ~Pending(WkThread)
    /\ IsIdle(WkThread)
    /\ IF wk.running
       THEN IF wk.kind = "event" THEN WmEventNext(WkThread, wk.handle, WorkerTimeout)
            ELSE WmQRNext(WkThread, wk.handle, WorkerTimeout)
       ELSE /\ wk' = [wk EXCEPT !.pc = "finally"]
            /\ HostStep
            /\ UNCHANGED <<inst, iter, nat>>

\* finally { if (handle != null) native.release(handle); port.close() }: the
\* release when there is a handle
WkRelease ==
    /\ wk.pc = "finally"
    /\ wk.handle # 0
    /\ ~Pending(WkThread)
    /\ WmRelease(WkThread, wk.handle)

\* the task of the worker ends after port.close(): the 'message' handler
\* (running = false) runs now if a message waits in a port that is open
TaskEnds(w) ==
    LET closed == [w EXCEPT !.pc = "exited", !.portOpen = FALSE]
    IN  [closed EXCEPT !.running = IF closed.portOpen /\ closed.inbox > 0
                                   THEN FALSE ELSE @]

\* the worker after its poll came back with outcome o: a throw goes to catch
\* and finally; the event worker breaks on type 'closed', the QR worker on
\* event 'success' or 'closed'; else the loop goes round
AfterWorkerPoll(w, o) ==
    IF o.threw THEN [w EXCEPT !.pc = "finally"]
    ELSE IF o.value = Undefined THEN [w EXCEPT !.pc = "loop"]
    ELSE IF w.kind = "event"
    THEN [w EXCEPT !.pc = IF o.value.type = "closed" THEN "finally" ELSE "loop"]
    ELSE [w EXCEPT !.pc = IF o.value.event \in {"success", "closed"}
                          THEN "finally" ELSE "loop"]

\* the worker after a native call came back.  A worker that has been
\* terminated runs no statement more, not its finally block either.
AfterWorkerCall(w, o) ==
    CASE w.killed -> [w EXCEPT !.pc = "terminated"]
      [] ~w.killed /\ w.pc = "hasid" ->
           [w EXCEPT !.pc = IF o.threw \/ o.value.has THEN "finally" ELSE "start"]
      [] ~w.killed /\ w.pc = "start" ->
           IF o.threw THEN [w EXCEPT !.pc = "finally"]
           ELSE [w EXCEPT !.handle = o.value.handle, !.pc = "loop"]
      [] ~w.killed /\ w.pc = "loop" -> AfterWorkerPoll(w, o)
      [] OTHER -> TaskEnds(w)

WkResume ==
    \E r \in rets :
       /\ r.t = WkThread
       /\ wk.pc \in {"hasid", "start", "loop", "finally"}
       /\ wk' = AfterWorkerCall(wk, NativeCall(r.resp))
       /\ nat' = [nat EXCEPT ![WkThread] = Outcome(r)]
       /\ rets' = rets \ {r}
       /\ UNCHANGED bridge
       /\ UNCHANGED <<inst, iter>>

\* finally with no handle: port.close() and the function ends
WkClose ==
    /\ wk.pc = "finally"
    /\ wk.handle = 0
    /\ ~Pending(WkThread)
    /\ wk' = TaskEnds(wk)
    /\ HostStep
    /\ UNCHANGED <<inst, iter, nat>>

\* stop(): worker.postMessage({ type: 'stop' }).  The message waits in the
\* port of the worker for the task that is running to end.
CtlPostStop ==
    /\ wk.pc # "off"
    /\ wk.ctl = "idle"
    /\ ~Pending(WkThread)
    /\ wk' = [wk EXCEPT !.ctl = "posted", !.stopAt = wk.pc,
                        !.inbox = IF wk.portOpen THEN 1 ELSE 0]
    /\ HostStep
    /\ UNCHANGED <<inst, iter, nat>>

\* stop() after its 10 ms: await worker.terminate().  A worker between
\* statements stops at once, one inside a native call when the call returns;
\* the message still in the port is dropped with the worker.
CtlTerminate ==
    /\ wk.pc # "off"
    /\ wk.ctl = "posted"
    /\ ~Pending(WkThread)
    /\ wk' = IF wk.pc = "exited" THEN [wk EXCEPT !.ctl = "done", !.inbox = 0]
             ELSE [wk EXCEPT !.ctl = "done", !.inbox = 0, !.killed = TRUE,
                     !.pc = IF IsIdle(WkThread) THEN "terminated" ELSE @]
    /\ HostStep
    /\ UNCHANGED <<inst, iter, nat>>

\* a worker of either kind and its controller, the steps of the bridge
\* inside the worker's calls, what the client and the pairing produce, and
\* the main program releasing the stream or the client
NextWorker ==
    \/ wk.pc = "off" /\ NativeReturn(JsThread)
    \/ \E kind \in {"event", "qr"} : SpawnWorker(kind)
    \/ WkHasStoreID
    \/ WkStart
    \/ WkPoll
    \/ WkRelease
    \/ WkClose
    \/ WkResume
    \/ CtlPostStop
    \/ CtlTerminate
    \/ ~Pending(WkThread) /\ StoreStep(WkThread)
    \/ ~Pending(WkThread) /\ EventSelect(WkThread)
    \/ ~Pending(WkThread) /\ QRSelect(WkThread)
    \/ ~Pending(WkThread) /\ TimerFire(WkThread)
    \/ ~Pending(WkThread) /\ \E raw \in RawEvents : Notify(3, raw, MaxNotify)
    \/ ~Pending(WkThread) /\ QRProducer
    \/ ~Pending(WkThread) /\ \E h \in 3..nextHandle : WmRelease(JsThread, h)
    \/ ~Pending(WkThread) /\ \E s \in pendingRm : RemoveEventHandler(s)

SpecWorker == InitClient /\ [][NextWorker]_vars
----------------------------------------------------------------------------
(* encodeReturn applied to the values a method of the client returns         *)

\* the values given to encodeReturn: identifiers, pointers to them (nil or
\* not), and send responses
ReturnValues ==
    {JIDVal(j) : j \in JIDs} \cup {JIDPtr(j) : j \in JIDs} \cup {JIDPtrNil}
        \cup {SendResponseVal(r) : r \in SendResponses}

\* WmClientCall on a client that exists, from the return of the method on:
\* one value v is left, it is encoded and put in the envelope
EncodeOne(t, h, v) ==
    /\ IsIdle(t)
    /\ RegistryLookup(clients, h)
    /\ rets' = {Ret(t, "WmClientCall", h, 0, "", success(encodeReturn(v)))
                    @@ [value |-> v]}
    /\ UNCHANGED <<nextHandle, regs, devicesMu, objs, thr, hist>>
    /\ UNCHANGED logs
    /\ UNCHANGED host

\* one call in a behaviour
NextEncode ==
    /\ \A r \in rets : r.op # "WmClientCall"
    /\ \E t \in Threads, v \in ReturnValues : EncodeOne(t, 3, v)

SpecEncode == InitClient /\ [][NextEncode]_vars

----------------------------------------------------------------------------
(* The registry locks, instruction by instruction.  A boundary call is the  *)
(* list of its steps on the five sync.RWMutex of the registries; a thread   *)
(* holds what it has locked and not yet unlocked.                            *)

Mutexes == {"eventsMu", "qrsMu", "clientsMu", "devicesMu", "containersMu"}

\* the mutex of a namespace
MuOf(ns) ==
    CASE ns = "event" -> "eventsMu"
      [] ns = "qr" -> "qrsMu"
      [] ns = "client" -> "clientsMu"
      [] ns = "device" -> "devicesMu"
      [] OTHER -> "containersMu"

\* the steps
RLockI(ns) == [i |-> "lock", mode |-> "R", ns |-> ns]
LockI(ns) == [i |-> "lock", mode |-> "W", ns |-> ns]
UnlockI(ns) == [i |-> "unlock", mode |-> "", ns |-> ns]
ReadI(ns) == [i |-> "read", mode |-> "", ns |-> ns]
CheckNilI(ns) == [i |-> "checknil", mode |-> "", ns |-> ns]
NativeI == [i |-> "native", mode |-> "", ns |-> ""]
NewHandleI == [i |-> "newHandle", mode |-> "", ns |-> ""]
InsertI(ns) == [i |-> "insert", mode |-> "", ns |-> ns]
ProbeI(ns) == [i |-> "probe", mode |-> "", ns |-> ns]
ReturnI == [i |-> "return", mode |-> "", ns |-> ""]

\* mu.RLock(); obj := m[h]; mu.RUnlock(); if obj == nil { return fail(..) }
LookupI(ns) == <<RLockI(ns), ReadI(ns), UnlockI(ns), CheckNilI(ns)>>

\* h := newHandle(); mu.Lock(); m[h] = obj; mu.Unlock(); return success(..)
StoreI(ns) == <<NewHandleI, LockI(ns), InsertI(ns), UnlockI(ns), ReturnI>>

\* one region of WmRelease that keeps its lock when it misses
RegionHolding(ns) == <<LockI(ns), ProbeI(ns)>>

\* one region of WmRelease: mu.Lock(); if hit { tear down; delete; mu.Unlock();
\* return success }; mu.Unlock()
Region(ns) == <<LockI(ns), ProbeI(ns), UnlockI(ns)>>

\* the steps of a boundary call
Program(op) ==
    CASE op = "WmOpenContainer" -> <<NativeI>> \o StoreI("container")
      [] op = "WmContainerGetFirstDevice" ->
           LookupI("container") \o <<NativeI>> \o StoreI("device")
      [] op = "WmContainerGetAllDevices" ->
           LookupI("container") \o
           <<NativeI, LockI("device"), NewHandleI, InsertI("device"), UnlockI("device"),
             ReturnI>>
      [] op = "WmNewClient" -> LookupI("device") \o StoreI("client")
      [] op = "WmClientStartEvents" -> LookupI("client") \o StoreI("event")
      [] op = "WmClientGetQRChannel" -> LookupI("client") \o <<NativeI>> \o StoreI("qr")
      [] op = "WmEventNext" -> LookupI("event") \o <<NativeI, ReturnI>>
      [] op = "WmQRNext" -> LookupI("qr") \o <<NativeI, ReturnI>>
      [] op = "WmClientCall" -> LookupI("client") \o <<NativeI, ReturnI>>
      [] OTHER ->
           Region("event") \o Region("qr") \o Region("client") \o Region("device")
               \o Region("container") \o <<ReturnI>>

LockOps ==
    {"WmOpenContainer", "WmContainerGetFirstDevice", "WmContainerGetAllDevices",
     "WmNewClient", "WmClientStartEvents", "WmClientGetQRChannel", "WmEventNext",
     "WmQRNext", "WmClientCall", "WmRelease"}

\* the calls that draw a handle
DrawingOps ==
    {op \in LockOps : \E j \in 1..Len(Program(op)) : Program(op)[j] = NewHandleI}

\* a thread outside any call; in a call: the function, its argument, the step
\* it is at, whether its lookup found the object, the handle it drew, and
\* the locks it holds
LockIdle == [op |-> "idle", pc |-> "idle", h |-> 0, at |-> 0, got |-> FALSE, nh |-> 0,
             held |-> {}]

InstrOf(t) == Program(thr[t].op)[thr[t].at]

At(t, kind) == thr[t].pc = "run" /\ InstrOf(t).i = kind

\* the threads that hold mu, in the modes given
Holders(mu, modes) ==
    {u \in Threads : \E l \in thr[u].held : l.mu = mu /\ l.mode \in modes}

\* sync.RWMutex: Lock waits for every holder, RLock for a writer
CanAcquire(mu, mode) ==
    IF mode = "W" THEN Holders(mu, {"R", "W"}) = {} ELSE Holders(mu, {"W"}) = {}

\* the calls under way that have still to draw their handle
ToDraw ==
    {u \in Threads :
        /\ thr[u].pc = "run"
        /\ \E j \in thr[u].at..Len(Program(thr[u].op)) : Program(thr[u].op)[j] = NewHandleI}

Forward(t) == [thr EXCEPT ![t].at = @ + 1]

\* the state with one container, device and client, no call under way
InitLocks ==
    /\ nextHandle = 3
    /\ containers = {1}
    /\ devices = {2}
    /\ clients = {3}
    /\ qrs = {}
    /\ eventsMap = {}
    /\ devicesMu = 0
    /\ streams = <<>>
    /\ qrobj = <<>>
    /\ cli = (3 :> [disc |-> 0, notes |-> 0])
    /\ cont = (1 :> [closes |-> 0])
    /\ pendingRm = {}
    /\ thr = [t \in Threads |-> LockIdle]
    /\ rets = {}
    /\ issued = <<1, 2, 3>>
    /\ kindOf = (1 :> "container") @@ (2 :> "device") @@ (3 :> "client")
    /\ released = {}
    /\ logCfg = DefaultLogCfg
    /\ loggers = (1 :> newDBLogger) @@ (3 :> newClientLogger)
    /\ HostIdle

\* thread t enters boundary function op with handle h
LockCall(t, op, h) ==
    /\ thr[t].pc = "idle"
    /\ op \in DrawingOps => nextHandle + Cardinality(ToDraw) + 1 <= MaxHandle
    /\ thr' = [thr EXCEPT ![t] = [LockIdle EXCEPT !.op = op, !.pc = "run", !.h = h, !.at = 1]]
    /\ rets' = {}
    /\ UNCHANGED <<nextHandle, regs, devicesMu, objs, hist>>
    /\ UNCHANGED logs
    /\ UNCHANGED host

\* mu.Lock() or mu.RLock(): the thread waits until the mutex lets it in
LockAcquire(t) ==
    /\ At(t, "lock")
    /\ CanAcquire(MuOf(InstrOf(t).ns), InstrOf(t).mode)
    /\ thr' = [thr EXCEPT ![t].at = @ + 1,
                          ![t].held = @ \cup {[mu |-> MuOf(InstrOf(t).ns),
                                               mode |-> InstrOf(t).mode]}]
    /\ devicesMu' = IF InstrOf(t).ns = "device" /\ InstrOf(t).mode = "W" THEN t ELSE devicesMu
    /\ rets' = {}
    /\ UNCHANGED <<nextHandle, regs, objs, hist>>
    /\ UNCHANGED logs
    /\ UNCHANGED host

\* mu.Unlock() or mu.RUnlock()
LockRelease(t) ==
    /\ At(t, "unlock")
    /\ thr' = [thr EXCEPT ![t].at = @ + 1,
                          ![t].held = {l \in @ : l.mu # MuOf(InstrOf(t).ns)}]
    /\ devicesMu' = IF devicesMu = t /\ InstrOf(t).ns = "device" THEN 0 ELSE devicesMu
    /\ rets' = {}
    /\ UNCHANGED <<nextHandle, regs, objs, hist>>
    /\ UNCHANGED logs
    /\ UNCHANGED host

\* obj := m[handle(..)]
LockRead(t) ==
    /\ At(t, "read")
    /\ thr' = [thr EXCEPT ![t].at = @ + 1,
                          ![t].got = RegistryLookup(RegistryOf(InstrOf(t).ns), thr[t].h)]
    /\ rets' = {}
    /\ UNCHANGED <<nextHandle, regs, devicesMu, objs, hist>>
    /\ UNCHANGED logs
    /\ UNCHANGED host

\* if obj == nil { return fail("... handle not found") }
LockCheckNil(t) ==
    /\ At(t, "checknil")
    /\ IF thr[t].got
       THEN thr' = Forward(t) /\ rets' = {}
       ELSE /\ thr' = [thr EXCEPT ![t] = LockIdle]
            /\ rets' = {Ret(t, thr[t].op, thr[t].h, 0, "",
                            fail(InstrOf(t).ns \o " handle not found"))}
    /\ UNCHANGED <<nextHandle, regs, devicesMu, objs, hist>>
    /\ UNCHANGED logs
    /\ UNCHANGED host

\* the call into the library between the lookup and the store or the return:
\* it may take any time, and comes back
LockNative(t) ==
    /\ At(t, "native")
    /\ thr' = Forward(t)
    /\ rets' = {}
    /\ UNCHANGED <<nextHandle, regs, devicesMu, objs, hist>>
    /\ UNCHANGED logs
    /\ UNCHANGED host

\* h := newHandle()
LockNewHandle(t) ==
    /\ At(t, "newHandle")
    /\ nextHandle' = newHandle
    /\ issued' = Append(issued, newHandle)
    /\ thr' = [thr EXCEPT ![t].at = @ + 1, ![t].nh = newHandle]
    /\ rets' = {}
    /\ UNCHANGED <<regs, devicesMu, objs, kindOf, released>>
    /\ UNCHANGED logs
    /\ UNCHANGED host

\* the registries with h put into, or taken out of, namespace ns
RegsWith(ns, h, put) ==
    /\ eventsMap' = IF ns # "event" THEN eventsMap
                    ELSE IF put THEN RegistryInsert(eventsMap, h) ELSE RegistryDelete(eventsMap, h)
    /\ qrs' = IF ns # "qr" THEN qrs
              ELSE IF put THEN RegistryInsert(qrs, h) ELSE RegistryDelete(qrs, h)
    /\ clients' = IF ns # "client" THEN clients
                  ELSE IF put THEN RegistryInsert(clients, h) ELSE RegistryDelete(clients, h)
    /\ devices' = IF ns # "device" THEN devices
                  ELSE IF put THEN RegistryInsert(devices, h) ELSE RegistryDelete(devices, h)
    /\ containers' = IF ns # "container" THEN containers
                     ELSE IF put THEN RegistryInsert(containers, h)
                     ELSE RegistryDelete(containers, h)

\* m[h] = obj
LockInsert(t) ==
    /\ At(t, "insert")
    /\ RegsWith(InstrOf(t).ns, thr[t].nh, TRUE)
    /\ kindOf' = kindOf @@ (thr[t].nh :> InstrOf(t).ns)
    /\ thr' = Forward(t)
    /\ rets' = {}
    /\ UNCHANGED <<nextHandle, devicesMu, objs, issued, released>>
    /\ UNCHANGED logs
    /\ UNCHANGED host

\* a region of WmRelease under its lock: on a hit the object is torn down,
\* the entry deleted, the lock of the region unlocked and success returned;
\* on a miss the call goes on
LockProbe(t) ==
    /\ At(t, "probe")
    /\ IF RegistryLookup(RegistryOf(InstrOf(t).ns), thr[t].h)
       THEN /\ RegsWith(InstrOf(t).ns, thr[t].h, FALSE)
            /\ released' = released \cup {thr[t].h}
            /\ thr' = [thr EXCEPT ![t] =
                          [LockIdle EXCEPT !.held =
                              {l \in thr[t].held : l.mu # MuOf(InstrOf(t).ns)}]]
            /\ devicesMu' = IF devicesMu = t /\ InstrOf(t).ns = "device" THEN 0 ELSE devicesMu
            /\ rets' = {Ret(t, "WmRelease", thr[t].h, 0, "released", success(EmptyObj))}
       ELSE /\ thr' = Forward(t)
            /\ rets' = {}
            /\ UNCHANGED <<regs, devicesMu, released>>
    /\ UNCHANGED <<nextHandle, objs, issued, kindOf>>
    /\ UNCHANGED logs
    /\ UNCHANGED host

\* the last statement: the success of a call that found its object, or the
\* "handle not found" of a WmRelease that missed everywhere
LockReturn(t) ==
    /\ At(t, "return")
    /\ thr' = [thr EXCEPT ![t] = [LockIdle EXCEPT !.held = thr[t].held]]
    /\ rets' = {Ret(t, thr[t].op, thr[t].h, 0, "",
                    IF thr[t].op = "WmRelease" THEN fail("handle not found")
                    ELSE IF thr[t].nh # 0 THEN success([handle |-> thr[t].nh])
                    ELSE success(EmptyObj))}
    /\ UNCHANGED <<nextHandle, regs, devicesMu, objs, hist>>
    /\ UNCHANGED logs
    /\ UNCHANGED host

\* a step of the call thread t is in
LockStep(t) ==
    \/ LockAcquire(t)
    \/ LockRelease(t)
    \/ LockRead(t)
    \/ LockCheckNil(t)
    \/ LockNative(t)
    \/ LockNewHandle(t)
    \/ LockInsert(t)
    \/ LockProbe(t)
    \/ LockReturn(t)

\* the handles passed to op: for WmRelease any that was issued, for the others
\* what ArgsOf gives for the kind of object they look up
LockArgs(op) ==
    IF op = "WmRelease" THEN 1..nextHandle
    ELSE IF op = "WmOpenContainer" THEN {0}
    ELSE ArgsOf(KindOfOp(op))

\* the first thread calls any function, the second releases handles
NextLocks ==
    \/ \E op \in LockOps : \E h \in LockArgs(op) : LockCall(1, op, h)
    \/ \E h \in LockArgs("WmRelease") : LockCall(2, "WmRelease", h)
    \/ \E t \in Threads : LockAcquire(t)
    \/ \E t \in Threads : LockRelease(t)
    \/ \E t \in Threads : LockRead(t)
    \/ \E t \in Threads : LockCheckNil(t)
    \/ \E t \in Threads : LockNative(t)
    \/ \E t \in Threads : LockNewHandle(t)
    \/ \E t \in Threads : LockInsert(t)
    \/ \E t \in Threads : LockProbe(t)
    \/ \E t \in Threads : LockReturn(t)

SpecLocks == InitLocks /\ [][NextLocks]_vars

----------------------------------------------------------------------------
(* Two event streams on one client under a burst of notifications.  The     *)
(* start is the state reached when WmClientStartEvents on client 3 has      *)
(* returned handle 4, the client has emitted Backlog notifications that     *)
(* nobody polled, and a second WmClientStartEvents has returned handle 5.   *)
(* Thread 1 polls stream 5; stream 4 is left unpolled, so that it fills;    *)
(* thread 2 releases either stream at any moment.                           *)

\* the notifications emitted before the second stream was started: two short
\* of the capacity of a stream
Backlog == EventChanCap - 2

\* the i-th notification of the burst (see BurstRaw)
RawAt(i) == IF (i - 1) % 2 = 0 THEN "Connected" ELSE "Message"

\* a stream that has been offered n notifications and was never polled
BackloggedStream(c, n) ==
    [NewEventStream(c) EXCEPT
        !.seen = [i \in 1..n |-> RawAt(i)],
        !.ch = [i \in 1..n |-> serializeEvent(RawAt(i), i)]]

InitTwoStreams ==
    /\ nextHandle = 5
    /\ containers = {1}
    /\ devices = {2}
    /\ clients = {3}
    /\ qrs = {}
    /\ eventsMap = {4, 5}
    /\ devicesMu = 0
    /\ streams = (4 :> BackloggedStream(3, Backlog)) @@ (5 :> NewEventStream(3))
    /\ qrobj = <<>>
    /\ cli = (3 :> [disc |-> 0, notes |-> Backlog])
    /\ cont = (1 :> [closes |-> 0])
    /\ pendingRm = {}
    /\ thr = [t \in Threads |-> Idle]
    /\ rets = {Ret(1, "WmClientStartEvents", 3, 0, "", success([handle |-> 5]))}
    /\ issued = <<1, 2, 3, 4, 5>>
    /\ kindOf = (1 :> "container") @@ (2 :> "device") @@ (3 :> "client")
                   @@ (4 :> "event") @@ (5 :> "event")
    /\ released = {}
    /\ logCfg = DefaultLogCfg
    /\ loggers = (1 :> newDBLogger) @@ (3 :> newClientLogger)
    /\ HostIdle

NextTwoStreams ==
    \/ Notify(3, BurstRaw, MaxBurst)
    \/ \E tmo \in {0, 250} : WmEventNext(1, 5, tmo)
    \/ EventSelect(1)
    \/ TimerFire(1)
    \/ \E h \in {4, 5} : WmRelease(2, h)
    \/ \E s \in {4, 5} : RemoveEventHandler(s)

SpecTwoStreams == InitTwoStreams /\ [][NextTwoStreams]_vars
----------------------------------------------------------------------------
(* Properties *)

Range(s) == {s[i] : i \in DOMAIN s}

PollOps == {"WmEventNext", "WmQRNext"}

\* h was returned by an allocating call for an object of kind k and no
\* WmRelease(h) has taken it out
Live(h, k) == h \in DOMAIN kindOf /\ kindOf[h] = k /\ h \notin released

\* C1: a handle returned by an allocating call is found by the lookups of its own
\* kind until WmRelease takes it: it is in its namespace, and no call on it of
\* its own kind answers not-found.  A handle that was never issued, 0 included,
\* gets the not-found failure, and no call gets past its lookup with one.
C1_HandleFoundUntilReleased ==
    /\ \A h \in DOMAIN kindOf : h \notin released => RegistryLookup(RegistryOf(kindOf[h]), h)
    /\ \A r \in rets :
         (KindOfOp(r.op) # "none" /\ NotFound(r.resp)) => ~Live(r.h, KindOfOp(r.op))
    /\ \A r \in rets :
         ((KindOfOp(r.op) # "none" \/ (r.op = "WmRelease" /\ r.via # "invalid"))
            /\ r.h \notin Range(issued)) => NotFound(r.resp)
    /\ \A t \in Threads :
         (~IsIdle(t) /\ KindOfOp(thr[t].op) # "none") => thr[t].h \in Range(issued)

C1_Witness ==
    \E t \in Threads :
       /\ thr[t].op = "WmEventNext"
       /\ thr[t].pc = "parked"
       /\ Live(thr[t].h, "event")
       /\ \E r \in rets : r.h = 0 /\ r.op = "WmQRNext" /\ NotFound(r.resp)

\* C2: WmRelease on a handle it has not taken yet succeeds; WmRelease on a handle
\* it has already taken fails with "handle not found", changes no registry and
\* runs no teardown (no cancel, no Disconnect, no Close, no handler removal).
C2_SecondReleaseNotFound ==
    [][\A r \in rets' :
         (r.op = "WmRelease" /\ r.via # "invalid") =>
            /\ r.h \in released =>
                 (r.resp = fail("handle not found") /\ UNCHANGED <<regs, objs>>)
            /\ (r.h \in DOMAIN kindOf /\ r.h \notin released) =>
                 (r.resp = success(EmptyObj) /\ r.h \in released')]_vars

C2_Witness ==
    \E r \in rets :
       /\ r.op = "WmRelease"
       /\ r.h \in released
       /\ r.resp = fail("handle not found")
       /\ streams # <<>>

\* C3: the handles drawn are positive and strictly increasing in the order they
\* were drawn, across all namespaces and however the calls interleave: no
\* handle is issued twice.
C3_HandlesStrictlyIncrease ==
    /\ \A i \in DOMAIN issued : issued[i] > 0
    /\ \A i, j \in DOMAIN issued : i < j => issued[i] < issued[j]
    /\ \A t \in Threads : thr[t].pc = "store" => thr[t].nh \notin DOMAIN kindOf

C3_Witness ==
    /\ Len(issued) >= 3
    /\ \A t \in Threads : thr[t].pc = "store"
    /\ \E h \in DOMAIN kindOf : kindOf[h] = "device"

\* C4: every envelope returned carries exactly one of data and error: data if
\* and only if ok is true, error if and only if ok is false.
C4_ExactlyOneOfDataError ==
    \A r \in rets :
       /\ HasData(r.resp) <=> r.resp.ok
       /\ HasError(r.resp) <=> ~r.resp.ok

\* C5: when WmRelease cancels an event stream, every WmEventNext call parked on
\* that stream returns in that step a success envelope carrying "closed".
C5_BlockedPollGetsClosed ==
    [][\A h \in DOMAIN streams :
         streams'[h].cancels > streams[h].cancels =>
            \A t \in Parked("WmEventNext", h) :
               /\ thr'[t] = Idle
               /\ \E r \in rets' :
                     /\ r.t = t /\ r.op = "WmEventNext" /\ r.h = h
                     /\ r.resp = success(ClosedEvent)]_vars

C5_Witness ==
    \E r1, r2 \in rets :
       /\ r1.op = "WmRelease" /\ r1.resp.ok
       /\ r2.op = "WmEventNext" /\ r2.h = r1.h /\ r2.tmo <= 0
       /\ r2.resp = success(ClosedEvent)

\* a WmQRNext call with timeoutMs <= 0 parked on a pairing stream that WmRelease
\* has taken
QRBlockedAfterRelease(t) ==
    /\ thr[t].op = "WmQRNext"
    /\ thr[t].pc = "parked"
    /\ thr[t].tmo <= 0
    /\ thr[t].h \in released

\* C6: a WmQRNext call with timeoutMs <= 0 that is blocked on a pairing stream
\* when WmRelease takes the stream eventually returns, in every state of the
\* handshake.
C6_QRBlockedPollReturns ==
    \A t \in Threads : QRBlockedAfterRelease(t) ~> ~QRBlockedAfterRelease(t)

\* C7: a WmEventNext or WmQRNext call made on a stream handle after WmRelease
\* succeeded for it returns the not-found failure from its lookup and never
\* reaches the select.
C7_PollAfterReleaseNotFound ==
    [][\A t \in Threads :
         IsIdle(t) =>
            /\ (thr'[t].op \in PollOps /\ thr'[t].pc # "idle") => thr'[t].h \notin released
            /\ \A r \in rets' :
                 (r.t = t /\ r.op \in PollOps /\ r.h \in released) => NotFound(r.resp)]_vars

C7_Witness ==
    \E r \in rets :
       /\ r.op = "WmQRNext"
       /\ r.h \in released
       /\ qrobj[r.h].cancels > 0
       /\ NotFound(r.resp)

\* C8: the queue of an event stream never holds more than 128 events; a
\* notification that finds it full is dropped and leaves the queue and every
\* caller as they were; after more than 128 notifications before any poll the
\* queue holds the first 128 of them and nothing else.
C8_QueueBoundedDropWhenFull ==
    [][\A s \in DOMAIN streams :
         /\ Len(streams'[s].ch) <= EventChanCap
         /\ (Len(streams'[s].seen) > Len(streams[s].seen)
               /\ Len(streams[s].ch) = EventChanCap) =>
                  (streams'[s].ch = streams[s].ch /\ UNCHANGED <<thr, regs>>
                     /\ streams'[s].got = streams[s].got)
         /\ (~streams'[s].polled /\ Len(streams'[s].seen) >= EventChanCap) =>
                  streams'[s].ch = [i \in 1..EventChanCap |->
                                      serializeEvent(streams'[s].seen[i], i)]]_vars

C8_Witness ==
    \E s \in DOMAIN streams :
       /\ ~streams[s].polled
       /\ Len(streams[s].seen) > EventChanCap
       /\ Len(streams[s].ch) = EventChanCap

\* C9: the events one sequential poller receives from a stream are, in the
\* order received, events made from distinct notifications in the order the
\* listener saw them: a subsequence of the notifications, with no reordering and
\* no duplicate; so are the events still queued behind them.
C9_OrderPreservingSubsequence ==
    \A s \in DOMAIN streams :
       LET all == streams[s].got \o streams[s].ch
       IN /\ \A i \in DOMAIN all :
                /\ all[i].seq \in 1..Len(streams[s].seen)
                /\ all[i] = serializeEvent(streams[s].seen[all[i].seq], all[i].seq)
          /\ \A i \in 1..(Len(all) - 1) : all[i].seq < all[i + 1].seq

C9_Witness ==
    \E s \in DOMAIN streams :
       \E i \in 1..(Len(streams[s].got) - 1) :
          streams[s].got[i + 1].seq > streams[s].got[i].seq + 1

\* C10: a poll returns from its timer only when timeoutMs > 0; it then returns
\* a success envelope carrying the timeout sentinel and leaves every registry
\* and every queue as it was.  A WmEventNext call with timeoutMs <= 0 never
\* returns the timeout sentinel.
C10_TimeoutOnlyWhenPositive ==
    [][\A r \in rets' :
         /\ r.via = "timeout" =>
               /\ r.tmo > 0
               /\ r.resp = success(TimeoutResult(r.op))
               /\ r.resp.ok
               /\ UNCHANGED <<regs, streams, qrobj>>
         /\ (r.op = "WmEventNext" /\ r.tmo <= 0) => r.resp # success(TimeoutEvent)]_vars

C10_Witness ==
    \E r \in rets :
       /\ r.via = "timeout"
       /\ r.op = "WmQRNext"
       /\ RegistryLookup(qrs, r.h)
       /\ qrobj[r.h].sent = 0


----------------------------------------------------------------------------
(* The dispatcher.                                                          *)

\* the calls of WmClientCall that found their client
IsCall(r) == "inv" \in DOMAIN r

\* C11: a call that names a method the client does not have fails with an error
\* text that holds the name, and invokes no method
C11_UnknownMethodFails ==
    \A r \in rets :
        (IsCall(r) /\ MethodOuts(r.method) = {}) =>
            /\ r.resp = fail("method not found: " \o r.method)
            /\ ~r.inv.called

C11_Witness ==
    \E r \in rets : IsCall(r) /\ r.method = "NoSuch" /\ HasError(r.resp) /\ ~r.resp.ok

\* C12: when the last value the invoked method returns is a nil error it is
\* dropped, and the data are {} when nothing remains, the one converted value
\* when one remains, the array of the converted values when several remain
C12_NilErrorDropped ==
    \A r \in rets :
        (IsCall(r) /\ r.inv.called /\ Len(r.out) > 0 /\ r.out[Len(r.out)] = ErrNil) =>
            r.resp = Shaped(SubSeq(r.out, 1, Len(r.out) - 1))

\* C13: when the last value the invoked method returns is a non-nil error the
\* call fails with the message of that error, and nothing else the method
\* returned is delivered
C13_ErrorFailsWithMessage ==
    \A r \in rets :
        (IsCall(r) /\ r.inv.called /\ Len(r.out) > 0
            /\ r.out[Len(r.out)].kind = "error" /\ ~r.out[Len(r.out)].isnil) =>
            /\ r.resp = fail(r.out[Len(r.out)].val)
            /\ ~r.resp.ok
            /\ ~HasData(r.resp)

C13_Witness ==
    \E r \in rets :
        /\ IsCall(r) /\ r.inv.called /\ Len(r.out) = 2
        /\ r.out[2] = ErrVal("native error")
        /\ r.resp = fail("native error")

\* C14: every argument is converted before the method is invoked: a call that
\* fails on an argument (missing or not convertible), at whatever position,
\* has not invoked the method, and a call that invoked it had all of them
C14_NoInvocationOnBadArgument ==
    \A r \in rets :
        (IsCall(r) /\ MethodOuts(r.method) # {}) =>
            LET b == PrepareArgs(r.method, MethodSig(r.method), ParseArgs(r.args))
            IN /\ ~b.ok => (~r.inv.called /\ r.resp = fail(b.err))
               /\ r.inv.called => (b.ok /\ r.inv.args = b.args)

\* the last of three arguments is the one refused
C14_Witness ==
    \E r \in rets :
        /\ IsCall(r) /\ r.method = "SendMessage" /\ ~r.inv.called
        /\ r.args.k = "array" /\ Len(r.args.e) = 3
        /\ r.resp = fail(BadArgument(3, "cannot convert to slice of struct"))

\* the calls of WmClientCall that found their client and the method
IsMethodCall(r) == IsCall(r) /\ MethodOuts(r.method) # {}

\* the indices (from 1) of the declared parameters that are not contexts
NonCtx(sig) ==
    SelectSeq([j \in 1..Len(sig.in) |-> j], LAMBDA j : sig.in[j] # "ctx")

\* the texts of the conversion errors
ConvErrors ==
    {"cannot convert to " \o ty : ty \in {"string", "bool", "duration", "jid", "struct"}}

\* C15: a call of a non-variadic method with more JSON arguments than the
\* method has declared parameters that are not contexts fails and does not
\* invoke the method
C15_TooManyArgumentsFail ==
    \A r \in rets :
        (IsMethodCall(r) /\ ~MethodSig(r.method).var
            /\ Len(r.raws) > Len(NonCtx(MethodSig(r.method)))) =>
            (~r.resp.ok /\ ~r.inv.called)

\* C16: when a required argument is missing or does not decode, the message
\* names the position (from 0) the offending argument has in the caller's
\* argument list, and for a missing one the method, also when the first
\* declared parameter is a context
C16_MessageNamesCallerPosition ==
    \A r \in rets :
        IsMethodCall(r) =>
            LET sig == MethodSig(r.method)
                b == PrepareArgs(r.method, sig, r.raws)
                required == ~sig.var \/ b.used < Len(NonCtx(sig)) - 1
            IN (~b.ok /\ required) =>
                  \/ r.resp = fail(MissingArgument(r.method, b.used))
                  \/ \E e \in ConvErrors : r.resp = fail(BadArgument(b.used, e))

\* C17: a context parameter takes no JSON argument and is given the background
\* context: a method with p declared parameters, c of them contexts, is
\* invoked when it is given exactly p - c JSON arguments that decode, the k-th
\* of them for the k-th parameter that is not a context
C17_ContextTakesNoArgument ==
    \A r \in rets :
        IsMethodCall(r) =>
            LET sig == MethodSig(r.method)
                nc == NonCtx(sig)
                fixed == IF sig.var THEN Len(nc) - 1 ELSE Len(nc)
            IN (/\ Len(r.raws) = Len(nc)
                /\ \A k \in 1..fixed : Decodes(r.raws[k], sig.in[nc[k]])
                /\ sig.var => \/ Decodes(r.raws[Len(nc)], sig.in[nc[Len(nc)]])
                              \/ /\ r.raws[Len(nc)].k = "array"
                                 /\ \A j \in 1..Len(r.raws[Len(nc)].e) :
                                       Decodes(r.raws[Len(nc)].e[j], sig.in[nc[Len(nc)]]))
               => /\ r.inv.called
                  /\ Len(r.inv.args) = Len(sig.in)
                  /\ \A j \in 1..Len(sig.in) :
                        sig.in[j] = "ctx" => r.inv.args[j] = ctxBackground
                  /\ \A k \in 1..fixed :
                        r.inv.args[nc[k]] = Converted(r.raws[k], sig.in[nc[k]])

\* Upload(ctx, data, type) invoked with two JSON arguments
C17_Witness ==
    \E r \in rets :
        /\ IsMethodCall(r) /\ r.method = "Upload" /\ r.inv.called
        /\ Len(r.raws) = 2 /\ Len(r.inv.args) = 3
        /\ r.inv.args[1] = ctxBackground
        /\ r.resp.ok

\* the calls of a variadic method whose arguments before the trailing one
\* are there and decode
VariadicReached(r) ==
    /\ IsMethodCall(r)
    /\ MethodSig(r.method).var
    /\ LET sig == MethodSig(r.method)
           nc == NonCtx(sig)
       IN /\ Len(r.raws) >= Len(nc) - 1
          /\ \A k \in 1..(Len(nc) - 1) : Decodes(r.raws[k], sig.in[nc[k]])

\* C18: the trailing parameter of a variadic method is given the empty list
\* when no JSON argument remains (and the method is invoked), the elements of
\* the remaining argument when that is an array, the one-element list of the
\* remaining argument when it is not
C18_VariadicTrailing ==
    \A r \in rets :
        VariadicReached(r) =>
            LET sig == MethodSig(r.method)
                p == Len(sig.in)
                ty == sig.in[p]
                v == Len(NonCtx(sig))
            IN IF Len(r.raws) < v
               THEN r.inv.called /\ r.inv.args[p].el = <<>>
               ELSE LET raw == r.raws[v] IN
                    IF raw.k = "array"
                    THEN (\A j \in 1..Len(raw.e) : Decodes(raw.e[j], ty)) =>
                            /\ r.inv.called
                            /\ r.inv.args[p].el = [j \in 1..Len(raw.e) |-> Converted(raw.e[j], ty)]
                    ELSE Decodes(raw, ty) =>
                            /\ r.inv.called
                            /\ r.inv.args[p].el = <<Converted(raw, ty)>>

\* SendMessage invoked with a trailing object, with a trailing array of two,
\* and with nothing trailing
C18_Witness ==
    \E r \in rets :
        /\ VariadicReached(r) /\ r.inv.called /\ Len(r.raws) = 3
        /\ r.raws[3].k = "object" /\ Len(r.inv.args[4].el) = 1

\* an object without members, in either spelling
EmptyObject(a) == a.k = "object" /\ a.v \in {"{}", "{ }"}

\* C19: the argument list derived from the args field is empty when the field
\* is absent, null or empty, the elements in order when it is an array, and
\* the one value itself when it is a single value that is not an array
C19_ArgsFieldToList ==
    \A r \in rets :
        IsMethodCall(r) =>
            r.raws = IF r.args.k \in {"absent", "null"} \/ EmptyObject(r.args) THEN <<>>
                     ELSE IF r.args.k = "array" THEN r.args.e
                     ELSE <<r.args>>

----------------------------------------------------------------------------
(* Teardown on release.                                                     *)

\* how often the teardown of the object under h has run
TeardownCount(h) ==
    CASE kindOf[h] = "client" -> cli[h].disc
      [] kindOf[h] = "event" -> streams[h].cancels
      [] kindOf[h] = "qr" -> qrobj[h].cancels
      [] kindOf[h] = "container" -> cont[h].closes
      [] OTHER -> IF h \in released THEN 1 ELSE 0

\* the removal of the native handler of event stream h has been started
RemovalStarted(h) == h \in pendingRm \/ ~streams[h].handler

\* a released handle has had the teardown of its kind once, any other handle
\* that was given out has had none
TornDownOnce ==
    \A h \in DOMAIN kindOf :
        /\ TeardownCount(h) = IF h \in released THEN 1 ELSE 0
        /\ kindOf[h] = "event" => (RemovalStarted(h) <=> h \in released)

\* a stream whose native handler is deregistered is given no notification
QuietAfterDeregistration ==
    \A s \in DOMAIN streams :
        ~streams[s].handler =>
            /\ streams'[s].seen = streams[s].seen
            /\ streams'[s].ch = streams[s].ch
            /\ ~streams'[s].handler

ReleasedStream(s) == s \in DOMAIN streams /\ s \in released
Deregistered(s) == s \in DOMAIN streams /\ ~streams[s].handler

\* C20: a WmRelease(h) that succeeds runs the teardown of h's kind exactly once
\* (client: Disconnect; event stream: cancel, and the removal of the native
\* handler is started; pairing stream: cancel; container: Close); the native
\* handler of a released event stream is eventually deregistered, and from then
\* on the stream is given nothing more
C20_TeardownExactlyOnce ==
    /\ []TornDownOnce
    /\ [][QuietAfterDeregistration]_vars
    /\ \A s \in 1..MaxHandle : ReleasedStream(s) ~> Deregistered(s)

\* the event stream, the client and the container are released, the handler is
\* deregistered, and the client has had a notification the stream was not given
C20_Witness ==
    \E s \in DOMAIN streams :
        /\ Deregistered(s) /\ s \in released /\ streams[s].cancels = 1
        /\ cli[3].disc = 1 /\ 3 \in released
        /\ cont[1].closes = 1 /\ 1 \in released
        /\ cli[3].notes > Len(streams[s].seen)

----------------------------------------------------------------------------
(* Release of a stream that is full, idle or being polled.                  *)

----------------------------------------------------------------------------
(* Pairing stream: order and end.                                           *)

\* what a poll answers for the i-th item of the producer of q: the code
\* events carry the code and the lifetime in milliseconds
ExpectedQREvent(q, i) ==
    LET item == qrobj[q].items[i]
    IN CASE item.Event = "code" ->
              [event |-> "code", code |-> item.Code, timeoutMs |-> item.Timeout \div 1000]
         [] item.Event = "error" /\ item.Error # "<nil>" ->
              [event |-> "error", error |-> item.Error]
         [] OTHER -> [event |-> item.Event]

\* C22: the events the polls of a pairing stream have returned are the items
\* of the producer from the first on, in their order, none lost, duplicated or
\* reordered, and the items not yet returned are queued in their order; for
\* the items code, code, success the polls return these three, each code event
\* with its code and timeoutMs
C22_PairingInOrder ==
    \A q \in DOMAIN qrobj :
        LET o == qrobj[q]
        IN /\ Len(o.got) + Len(o.ch) = Len(o.items)
           /\ \A i \in 1..Len(o.got) : o.got[i] = ExpectedQREvent(q, i)
           /\ \A i \in 1..Len(o.ch) : o.ch[i] = o.items[Len(o.got) + i]

\* the producer sent code, code, success and three polls returned them
C22_Witness ==
    \E q \in DOMAIN qrobj :
        /\ Len(qrobj[q].items) = 3
        /\ qrobj[q].got =
              << [event |-> "code", code |-> 1, timeoutMs |-> 60000],
                 [event |-> "code", code |-> 2, timeoutMs |-> 20000],
                 [event |-> "success"] >>

\* the polls of q that return in this step
QRReturns(q) == {r \in rets' : r.op = "WmQRNext" /\ r.h = q}

----------------------------------------------------------------------------
\* C24: a boundary function whose request does not parse as JSON returns a
\* failure envelope, and the step that returns it leaves the registries, the
\* handle counter, the log configuration, every object and every call in
\* progress as they were: no handle is drawn or released, nothing is started.
C24_InvalidJSONChangesNothing ==
    [][\A r \in rets' : r.via = "invalid" =>
          /\ ~r.resp.ok /\ HasError(r.resp) /\ ~HasData(r.resp)
          /\ nextHandle' = nextHandle
          /\ regs' = regs
          /\ logCfg' = logCfg /\ loggers' = loggers
          /\ objs' = objs /\ devicesMu' = devicesMu
          /\ thr' = thr
          /\ issued' = issued /\ released' = released]_vars

\* an invalid request has been answered while handles are registered, a call
\* is in progress and the log configuration is not the default one
C24_Witness ==
    /\ \E r \in rets : r.via = "invalid" /\ r.op = "WmSetLogOptions"
    /\ containers # {} /\ clients # {}
    /\ logCfg # DefaultLogCfg
    /\ \E t \in Threads : ~IsIdle(t)

\* the logger a container or client is built with under configuration cfg
LoggerUnder(cfg, op) ==
    LET module == IF op = "WmOpenContainer" THEN "Database" ELSE "Client"
        level == IF op = "WmOpenContainer" THEN cfg.Database ELSE cfg.Client
    IN  IF level \in {"none", "None", "NONE"}
        THEN Noop
        ELSE [module |-> module,
              min |-> IF level = "info" THEN "INFO" ELSE level,
              color |-> cfg.Color]

\* C27: a container or client is built with the log configuration in force
\* when it is created and keeps that logger whatever WmSetLogOptions does
\* later; a WmSetLogOptions call replaces exactly the fields its request
\* names, an empty database or client and a missing color keep the value.
C27_LogConfigAtCreation ==
    [][/\ \A h \in DOMAIN loggers : h \in DOMAIN loggers' /\ loggers'[h] = loggers[h]
       /\ \A h \in DOMAIN loggers' \ DOMAIN loggers :
             \E t \in Threads :
                /\ thr'[t].pc = "store" /\ thr'[t].nh = h
                /\ thr'[t].op \in {"WmOpenContainer", "WmNewClient"}
                /\ loggers'[h] = LoggerUnder(logCfg, thr'[t].op)
       /\ \A r \in rets' : r.op = "WmSetLogOptions" /\ r.via = "set" =>
             /\ r.resp.ok
             /\ logCfg'.Database = IF r.req.Database = "" THEN logCfg.Database
                                   ELSE r.req.Database
             /\ logCfg'.Client = IF r.req.Client = "" THEN logCfg.Client
                                 ELSE r.req.Client
             /\ r.req.Color = {} => logCfg'.Color = logCfg.Color
             /\ \A b \in r.req.Color : logCfg'.Color = b
       /\ (\A r \in rets' : r.op # "WmSetLogOptions" \/ r.via # "set") =>
             logCfg' = logCfg]_vars

\* the first container and client keep the loggers of the default
\* configuration; a container created after a WmSetLogOptions call that named
\* only the database level has the new level and the old color, and the
\* configuration has been changed again since
C27_Witness ==
    /\ 1 \in containers /\ 3 \in clients /\ 4 \in containers
    /\ loggers[1] = [module |-> "Database", min |-> "DEBUG", color |-> TRUE]
    /\ loggers[3] = [module |-> "Client", min |-> "DEBUG", color |-> TRUE]
    /\ loggers[4] = [module |-> "Database", min |-> "INFO", color |-> TRUE]
    /\ logCfg = [Database |-> "DEBUG", Client |-> "None", Color |-> FALSE]

----------------------------------------------------------------------------
\* C25: an operation on a handle of one kind never waits for the lock of
\* another kind's namespace: a thread that is free to call WmRelease on a
\* registered container handle can always complete the call, whatever the
\* other threads hold.
C25_ContainerReleaseNeverWaits ==
    \A t \in Threads, h \in containers :
        IsIdle(t) => ENABLED WmRelease(t, h)

----------------------------------------------------------------------------
\* C26: the postinstall script tries the download of the release asset first,
\* the copy from prebuilt/<triplet>/ only after the download failed, and the
\* local build only after both failed and WHATS_BUILD_FROM_SOURCE=true; no
\* step follows one that succeeded; with WHATS_SKIP_POSTINSTALL=true no step
\* is run.
C26_SourcesInOrder ==
    inst.pc # "off" =>
       /\ inst.in.skip => inst.tried = <<>>
       /\ \E n \in 0..3 : inst.tried = SubSeq(<<"download", "copy", "build">>, 1, n)
       /\ Len(inst.tried) = 3 => inst.in.fromSource
       /\ inst.got # "none" => inst.pc = "done"

----------------------------------------------------------------------------
\* C30: native.call returns the data of an envelope with ok=true and throws
\* an Error with the envelope's error message for one with ok=false: no value
\* is returned for a failed envelope and nothing is thrown for a successful
\* one, whichever boundary function answered.
C30_NativeCallThrowsIffNotOk ==
    \A t \in Threads :
       nat[t] # Undefined =>
          LET e == nat[t].env
              o == nat[t].out
          IN  /\ e.ok => /\ ~o.threw
                         /\ o.value = IF "data" \in DOMAIN e THEN e.data ELSE Undefined
              /\ ~e.ok => /\ o.threw
                          /\ "value" \notin DOMAIN o
                          /\ o.message = IF "error" \in DOMAIN e THEN e.error ELSE ""

\* the main program's call of a method of the client came back with the
\* method's error and was thrown, the other thread's release returned its data
C30_Witness ==
    /\ nat[1] # Undefined /\ nat[2] # Undefined
    /\ nat[1].fn = "WmClientCall" /\ nat[1].out.threw
    /\ nat[1].out.message = "native error"
    /\ nat[2].fn = "WmRelease" /\ ~nat[2].out.threw
    /\ nat[2].out.value = EmptyObj

----------------------------------------------------------------------------
\* C29: the iterator of Client.events() never gives its consumer a 'timeout'
\* or a 'closed' event: a next() that gets 'timeout' from the poll goes back
\* to polling without settling, one that gets 'closed' settles with done and
\* closes the iterator, and a closed iterator never polls again and settles
\* every next() with done.
C29_IteratorHidesTimeoutAndClosed ==
    [][iter.pc # "off" =>
        /\ iter'.last # Undefined /\ "value" \in DOMAIN iter'.last.res =>
              iter'.last.res.value.type \notin {"timeout", "closed"}
        /\ \A r \in rets :
              (/\ r.t = JsThread /\ r.op = "WmEventNext" /\ r.resp.ok
               /\ r \notin rets' /\ iter.pc = "poll") =>
                 /\ r.resp.data.type = "timeout" =>
                       iter'.pc = "poll" /\ iter'.last = iter.last /\ ~iter'.closed
                 /\ r.resp.data.type = "closed" =>
                       /\ iter'.pc = "idle" /\ iter'.closed
                       /\ iter'.last = [by |-> "next", res |-> [done |-> TRUE]]
        /\ iter.closed =>
              /\ iter'.closed
              /\ iter'.pc \notin {"ensure", "poll"}
              /\ iter'.last # iter.last /\ iter'.last.by = "next" =>
                    iter'.last.res = [done |-> TRUE]]_vars

\* a next() gave the consumer an event; the next() after it got 'timeout'
\* from the poll and is about to poll again
C29_Witness ==
    /\ iter.pc = "poll" /\ IsIdle(JsThread) /\ ~Pending(JsThread)
    /\ nat[JsThread] # Undefined /\ nat[JsThread].fn = "WmEventNext"
    /\ nat[JsThread].env = [ok |-> TRUE, data |-> [type |-> "timeout"]]
    /\ iter.last # Undefined /\ iter.last.by = "next"
    /\ "value" \in DOMAIN iter.last.res

----------------------------------------------------------------------------
\* C28: when stop() of the controller has posted { type: 'stop' } to a worker
\* that was in its polling loop, the worker sees the request (running becomes
\* false), leaves the loop and ends through its finally block, so that once
\* stop() is over and the worker is gone the stream handle the worker obtained
\* is no longer registered in the bridge.
C28_StopReleasesHandle ==
    (/\ wk.pc \in {"terminated", "exited"}
     /\ wk.ctl = "done"
     /\ wk.stopAt = "loop") =>
        /\ wk.pc = "exited"
        /\ wk.handle \notin eventsMap \cup qrs
----------------------------------------------------------------------------
(* Properties of the encoded results, the host iterator, the native call,    *)
(* the registries and the download                                           *)

\* an envelope of the encoding step for a value of one of the kinds
Encoded(r, kinds) == "value" \in DOMAIN r /\ r.value.kind \in kinds

\* C31: an identifier returned by a method is delivered as its canonical
\* string, and a nil pointer to an identifier as the empty string, so the data
\* of an identifier-typed result is always present and a string
C31_IdentifierIsAlwaysString ==
    \A r \in rets :
        Encoded(r, {"JID", "*JID"}) =>
            /\ r.resp.ok
            /\ HasData(r.resp)
            /\ r.resp.data = [val |-> IF r.value.isnil THEN "" ELSE String(r.value.val)]

\* the key the host type SendResponse.debug declares for phase i
DeclaredKeys ==
    <<"queueMs", "marshalMs", "getParticipantsMs", "getDevicesMs", "groupEncryptMs",
      "peerEncryptMs", "sendMs", "respMs", "retryMs">>

\* C32: for a SendResponse each phase whose milliseconds are not zero is under
\* the key the host type declares for it, no other key is in debug, and debug
\* is absent when every timing is zero
C32_TimingsUnderDeclaredKeys ==
    \A r \in rets :
        Encoded(r, {"SendResponse"}) =>
            LET dt == r.value.val.DebugTimings
                nz == {i \in 1..NumPhases : Milliseconds(dt[i]) # 0}
                data == r.resp.data
            IN /\ r.resp.ok
               /\ ("debug" \in DOMAIN data) <=> (nz # {})
               /\ nz # {} =>
                    /\ DOMAIN data.debug = {DeclaredKeys[i] : i \in nz}
                    /\ \A i \in nz : data.debug[DeclaredKeys[i]] = Milliseconds(dt[i])

\* the iteration of the iterator has ended: closed is set (by return(), by
\* throw() or by a 'closed' event), or its last next() was rejected
IterationEnded ==
    /\ iter.pc = "idle"
    /\ \/ iter.closed
       \/ /\ iter.last # Undefined
          /\ iter.last.by = "next"
          /\ "rejected" \in DOMAIN iter.last.res

\* C33: once the iteration of a Client.events() iterator has ended, the event
\* stream handle it obtained has been released and is no longer registered
C33_IteratorHandleReleasedAtEnd ==
    (IterationEnded /\ iter.h # 0) =>
        /\ iter.h \in released
        /\ iter.h \notin eventsMap

\* the ways a result can reach call: copied into a string, or as a buffer
Receptions == {"string", "Buffer"}

C35_OneStreamPerIterator ==
    /\ [](iter.pc # "off" =>
            /\ iter.started <= 1
            /\ (iter.started = 1) <=> (iter.h # 0)
            /\ (iter.pc = "idle" /\ iter.last = Undefined) => iter.started = 0
            /\ iter.h # 0 => iter.h \notin iter.prev)
    /\ [][iter.pc # "off" /\ iter'.n = iter.n =>
            /\ iter'.started # iter.started => iter.pc = "ensure"
            /\ (iter.pc = "idle" /\ iter.closed) => iter'.pc \notin {"ensure", "poll"}]_vars

\* the second iterator of an iterable started a stream of its own after the
\* first had started one, was closed by return(), and its next next() settled
\* with done without a call
C35_Witness ==
    /\ iter.pc = "idle"
    /\ iter.n = 2 /\ iter.started = 1 /\ iter.h # 0 /\ iter.prev # {}
    /\ iter.closed
    /\ iter.last = Settled("next", Done)

Namespaces == {"event", "qr", "client", "device", "container"}

\* the namespaces that hold the key h
HoldersOf(h) == {k \in Namespaces : RegistryLookup(RegistryOf(k), h)}

\* C36: no handle is a key of two registries, and a key is in the registry of
\* the kind it was allocated for; so a successful WmRelease(h) takes h out of
\* one namespace, the one h was allocated in, and a probe of the namespaces
\* in any other order would hit the same entry
C36_NamespacesDisjoint ==
    /\ [](\A h \in 0..HandleRoom :
            /\ Cardinality(HoldersOf(h)) <= 1
            /\ \A k \in HoldersOf(h) :
                  /\ h \in Range(issued)
                  /\ h \in DOMAIN kindOf /\ kindOf[h] = k)
    /\ [][\A r \in rets' :
            (r.op = "WmRelease" /\ r.resp.ok /\ r \notin rets) =>
               /\ HoldersOf(r.h) = {kindOf[r.h]}
               /\ ReleaseHit(r.h) = kindOf[r.h]
               /\ \A k \in Namespaces :
                     (r.h \notin RegistryOf(k)') /\
                     (RegistryOf(k) \ RegistryOf(k)' = IF k = kindOf[r.h] THEN {r.h} ELSE {})]_vars

\* a client was released while a container, a device and an event stream
\* were registered, and these three still are
C36_Witness ==
    /\ \E r \in rets : r.op = "WmRelease" /\ r.resp.ok /\ kindOf[r.h] = "client"
    /\ containers # {} /\ devices # {} /\ eventsMap # {} /\ clients = {}

\* the mutex thread t waits for, if it is at a Lock or RLock that cannot go on
WaitsFor(t) ==
    IF At(t, "lock") /\ ~CanAcquire(MuOf(InstrOf(t).ns), InstrOf(t).mode)
    THEN {MuOf(InstrOf(t).ns)} ELSE {}

\* C37: no boundary call holds two registry locks at once, none is held
\* across a call into the library or after the call has returned, and no
\* thread waits for a lock whose holder cannot go on: the calls never
\* deadlock on the registry locks
C37_OneRegistryLockAtATime ==
    \A t \in Threads :
       /\ Cardinality(thr[t].held) <= 1
       /\ (thr[t].pc = "idle" \/ At(t, "native")) => thr[t].held = {}
       /\ thr[t].pc = "run" => \/ ENABLED LockStep(t)
                               \/ \E u \in Threads \ {t} :
                                     /\ \E l \in thr[u].held : l.mu \in WaitsFor(t)
                                     /\ WaitsFor(u) = {}
                                     /\ ENABLED LockStep(u)

\* a WmRelease that has passed the event and pairing regions holds clientsMu
\* for writing while the other thread, in WmClientStartEvents, waits for its
\* read lock
C37_Witness ==
    /\ thr[2].op = "WmRelease" /\ thr[2].held = {[mu |-> "clientsMu", mode |-> "W"]}
    /\ thr[1].op = "WmClientStartEvents" /\ WaitsFor(1) = {"clientsMu"}

\* C38: a successful WmRelease(h) takes h out of the registries and leaves
\* every other key where it is; the event streams, pairing streams, clients
\* and containers under other handles are not cancelled, disconnected,
\* closed or changed, and no handler but that of stream h is to be removed
C38_ReleaseRemovesOnlyItsEntry ==
    [][\A r \in rets' :
          (r.op = "WmRelease" /\ r.resp.ok /\ r \notin rets) =>
             /\ \A k \in Namespaces :
                   /\ r.h \notin RegistryOf(k)'
                   /\ RegistryOf(k)' \cup {r.h} = RegistryOf(k) \cup {r.h}
             /\ \A s \in DOMAIN streams \ {r.h} : streams'[s] = streams[s]
             /\ \A q \in DOMAIN qrobj \ {r.h} : qrobj'[q] = qrobj[q]
             /\ \A c \in DOMAIN cli \ {r.h} : cli'[c] = cli[c]
             /\ \A c \in DOMAIN cont \ {r.h} : cont'[c] = cont[c]
             /\ pendingRm' \ pendingRm \subseteq {r.h}]_vars

\* a client was released and the event stream started on it is still
\* registered, not cancelled, its handler in place
C38_Witness ==
    \E r \in rets :
       /\ r.op = "WmRelease" /\ r.resp.ok /\ kindOf[r.h] = "client"
       /\ \E s \in eventsMap :
             streams[s].client = r.h /\ streams[s].cancels = 0 /\ streams[s].handler


----------------------------------------------------------------------------
\* C39: downloadTo writes the response body to the temporary file
\* <dst>.download and renames it onto <dst> only after the write stream has
\* finished, so <dst> is only ever replaced by a completely downloaded file;
\* and when the server answers 200 the download step ends with the library in
\* place: downloadPrebuilt returns true.
C39_DownloadedFileRenamedIntoPlace ==
    (inst.pc # "off" /\ \E n \in DOMAIN inst.tried : inst.tried[n] = "download") =>
       /\ \A i \in DOMAIN inst.ran :
             inst.ran[i] = "rename" => \E j \in 1..(i - 1) : inst.ran[j] = "pipe"
       /\ inst.in.remote = "asset" =>
             /\ \E i \in DOMAIN inst.ran : inst.ran[i] = "rename"
             /\ inst.got = "remote"

----------------------------------------------------------------------------
\* C40: two event streams started on the same client are independent.  A
\* notification the client emits is offered to every stream whose listener is
\* registered, and a stream loses it only when its own queue holds
\* EventChanCap events, whatever the state of the other queue; a stream is
\* cancelled, taken out of the registry or left without its listener only by
\* its own release, never by the release of the other stream.
C40_TwoStreamsIndependent ==
    [][/\ cli'[3].notes = cli[3].notes + 1 =>
             \A s \in DOMAIN streams :
                streams[s].handler =>
                   LET ev == serializeEvent(BurstRaw, Len(streams[s].seen) + 1)
                   IN /\ streams'[s].seen = Append(streams[s].seen, BurstRaw)
                      /\ \/ /\ streams'[s].ch = Append(streams[s].ch, ev)
                            /\ streams'[s].got = streams[s].got
                         \/ /\ streams'[s].got = Append(streams[s].got, ev)
                            /\ streams'[s].ch = streams[s].ch
                         \/ /\ Len(streams[s].ch) = EventChanCap
                            /\ streams'[s].ch = streams[s].ch
                            /\ streams'[s].got = streams[s].got
      /\ \A s \in DOMAIN streams :
            \/ streams'[s].cancels # streams[s].cancels
            \/ streams'[s].handler # streams[s].handler
            \/ s \in eventsMap /\ s \notin eventsMap'
            => s \in released'
      /\ \A t \in Threads :
            (thr[t].pc = "parked" /\ thr'[t].pc # "parked" /\ cli'[3].notes = cli[3].notes)
               => thr[t].h \in released' \/ TimerCanFire(thr[t].tmo)]_vars

\* stream 4 was full and lost a notification, was released and its listener
\* taken out; stream 5 is registered, not cancelled, has its listener, and has
\* been handed every notification emitted since it was started, one of them
\* after the listener of stream 4 was gone
C40_Witness ==
    /\ DOMAIN streams = {4, 5}
    /\ Len(streams[4].seen) > EventChanCap
    /\ Len(streams[4].ch) = EventChanCap
    /\ 4 \in released /\ ~streams[4].handler
    /\ 5 \in eventsMap /\ streams[5].handler /\ streams[5].cancels = 0
    /\ Len(streams[5].seen) = cli[3].notes - Backlog
    /\ Len(streams[5].got) + Len(streams[5].ch) = Len(streams[5].seen)
    /\ Len(streams[5].seen) > Len(streams[4].seen) - Backlog
====
